---- MODULE Spec2Model ----
(***************************************************************************)
(* Linear BVH of axom::spin (src/src/axom/spin/BVH.hpp): construction over *)
(* a flat array of axis-aligned boxes, and the two-pass candidate search   *)
(* find().  The BVH class itself (constructor, setScaleFactor, build,      *)
(* getBounds, find, bvh_get_counts) is translated from BVH.hpp.  The       *)
(* headers it includes from axom/spin/internal/linear_bvh (aabb, radix     *)
(* tree builder, emitter, traversal, predicates) are not part of the       *)
(* sources at hand; they are modelled after sections 3 and 4 of the        *)
(* design specification and marked as such in the model map.               *)
(*                                                                         *)
(* Numbers.  Coordinates are integers of a grid.  A scale factor s is the  *)
(* integer s * ScaleDen (1001 for 1.001).  A box scaled about its centre   *)
(* has corners c -+ s*(hi-lo)/2; multiplied by FineUnit = 2*ScaleDen these *)
(* are the integers ScaleDen*(lo+hi) -+ sf*(hi-lo), so every comparison    *)
(* of a point with a scaled box is exact.                                  *)
(***************************************************************************)
EXTENDS Integers, Sequences, FiniteSets, TLC

VARIABLES
  m_scaleFactor,       \* BVH::m_scaleFactor, times ScaleDen
  m_numItems,          \* BVH::m_numItems
  m_boxes,             \* BVH::m_boxes: the caller's flat array, 0-based
  m_bvh,               \* BVH::m_bvh: bounds, inner nodes, leaf nodes
  defaultAllocatorID,  \* the process-wide default allocator
  aborted,             \* the process was stopped by a failed assertion
  ret,                 \* the last call of the caller and what it returned
  h_builtScale,        \* history: the scale factor the tree was built with
  h_prevBvh,           \* history: m_bvh as the previous build() left it
  h_buildsInRow,       \* history: builds in a row with unchanged input (<= 2)
  p_pc,                \* parallel backend: the phase build()/find() is in
  p_done,              \* parallel backend: work items of the phase that ran
  p_build,             \* parallel backend: locals of build() (radix tree)
  p_find,              \* parallel backend: locals and outputs of find()
  c_pc,                \* concurrent callers: where each find() call is
  c_find,              \* concurrent callers: locals and outputs of each find()
  k_counters,          \* bottom-up combination: arrival counter of each node
  k_worker,            \* bottom-up combination: where each leaf's worker is
  k_earlyRead,         \* history: a box was read before it was written
  k_writes,            \* history: how often each internal node's box was written
  b_buffer,            \* sidre: the fields of one DataBuffer
  b_heap,              \* sidre: the blocks allocateBytes has handed out
  b_ret,               \* sidre: the last DataBuffer call and its outcome
  h_bufferBefore,      \* history: the DataBuffer when the last call began
  m_data_buffers,      \* sidre DataStore: the buffer table (object or null)
  m_free_buffer_ids,   \* sidre DataStore: stack of freed indices, top last
  s_index,             \* sidre DataStore: m_index of each live DataBuffer
  s_ret,               \* sidre DataStore: the last call and what it returned
  h_fill,              \* history: the leaf actions of the running fill pass
  h_entryAllocatorID,  \* history: the default allocator when the last call began
  l_heap,              \* BVH lifetime: the heap blocks that are allocated
  l_arrays,            \* BVH lifetime: m_bvh.m_inner_nodes and m_bvh.m_leaf_nodes
  l_alive,             \* BVH lifetime: the BVH object has not been destroyed
  l_builds,            \* BVH lifetime: build() calls so far (capped)
  ia_mesh,             \* IAMesh: the sets and relations of the mesh
  ia_ret,              \* IAMesh: the last call and what the mesh was before it
  m_dimensions,        \* StructuredIndexing: the extents
  q_index,             \* StructuredIndexing: the flat index last converted
  q_logical,           \* StructuredIndexing: IndexToLogicalIndex( q_index )
  q_back               \* StructuredIndexing: LogicalIndexToIndex( q_logical )

bvhVars  == <<m_scaleFactor, m_numItems, m_boxes, m_bvh>>
histVars == <<h_builtScale, h_prevBvh, h_buildsInRow>>
parVars  == <<p_pc, p_done, p_build, p_find>>
concVars == <<c_pc, c_find>>
combVars == <<k_counters, k_worker, k_earlyRead, k_writes>>
bufVars  == <<b_buffer, b_heap, b_ret, h_bufferBefore>>
storeVars == <<m_data_buffers, m_free_buffer_ids, s_index, s_ret>>
fillVars == <<h_fill>>
allocVars == <<h_entryAllocatorID>>
lifeVars == <<l_heap, l_arrays, l_alive, l_builds>>
meshVars == <<ia_mesh, ia_ret>>
idxVars == <<m_dimensions, q_index, q_logical, q_back>>
otherVars == <<bufVars, storeVars, fillVars, allocVars, lifeVars, meshVars,
               idxVars>>
vars == <<bvhVars, defaultAllocatorID, aborted, ret, histVars, parVars,
          concVars, combVars, otherVars>>

\* --------------------------------------------------------------- constants
NDIMS == 2
BVH_BUILD_FAILED == -1
BVH_BUILD_OK == 0
ScaleDen == 1000
DEFAULT_SCALE_FACTOR == 1001
FineUnit == 2 * ScaleDen
MortonBits == 10
IndexBits == 32

\* ------------------------------------------------------------------ bounds
MaxItems == 3
MaxBuffers == 3
MaxQueries == 2

\* -------------------------------------------------------- integer helpers
Min2(a, b) == IF a <= b THEN a ELSE b
Max2(a, b) == IF a >= b THEN a ELSE b
Pow2(k) == 2 ^ k

RECURSIVE BitXor(_, _)
BitXor(a, b) ==
  IF a = 0 /\ b = 0 THEN 0
  ELSE (((a % 2) + (b % 2)) % 2) + 2 * BitXor(a \div 2, b \div 2)

RECURSIVE BitLen(_)
BitLen(x) == IF x = 0 THEN 0 ELSE 1 + BitLen(x \div 2)

\* Count of leading zeros of x seen as a w-bit word.
Clz(x, w) == w - BitLen(x)

\* An array of the code: a function on 0 .. n-1 (combined with the
\* empty array so that its entries are computed once, when it is made).
EmptyArr == << >>
Arr(n, F(_)) == [i \in 0 .. n - 1 |-> F(i)] @@ EmptyArr
Len0(a) == Cardinality(DOMAIN a)

RECURSIVE SumTo(_, _)
SumTo(a, n) == IF n = 0 THEN 0 ELSE SumTo(a, n - 1) + a[n - 1]

\* ------------------------------------------------------------------- AABB
Dims == 1 .. NDIMS
MkBox(lo, hi) == [lo |-> lo, hi |-> hi]

\* Box j of a flat array: 2*NDIMS entries, min corner then max corner.
BoxAt(boxes, j) ==
  LET M == 2 * NDIMS
  IN  MkBox([d \in Dims |-> boxes[j * M + d - 1]],
            [d \in Dims |-> boxes[j * M + NDIMS + d - 1]])

\* Union of two boxes (AABB::include).
BoxUnion(a, b) ==
  MkBox([d \in Dims |-> Min2(a.lo[d], b.lo[d])],
        [d \in Dims |-> Max2(a.hi[d], b.hi[d])])

\* A grid box scaled about its centre by sf/ScaleDen, in fine units.
ScaleBox(b, sf) ==
  MkBox([d \in Dims |-> ScaleDen * (b.lo[d] + b.hi[d]) - sf * (b.hi[d] - b.lo[d])],
        [d \in Dims |-> ScaleDen * (b.lo[d] + b.hi[d]) + sf * (b.hi[d] - b.lo[d])])

\* The containment test of the traversal: strict inequalities on every axis.
\* p is a grid point, fb a box in fine units.
PointInBox(p, fb) ==
  \A d \in Dims : fb.lo[d] < FineUnit * p[d] /\ FineUnit * p[d] < fb.hi[d]

\* ------------------------------------------------------------ Morton codes
\* Union of the boxes 0 .. n-1 of a flat array (the reduction of step 1).
RECURSIVE ReduceBounds(_, _)
ReduceBounds(boxes, n) ==
  IF n = 1 THEN BoxAt(boxes, 0)
  ELSE BoxUnion(ReduceBounds(boxes, n - 1), BoxAt(boxes, n - 1))

\* The centroid of b along axis d, normalised to the global bounds and
\* quantised to MortonBits bits: floor(2^MortonBits * (c - gmin)/(gmax - gmin)),
\* clamped to the largest code of the axis; 0 on an axis of zero extent.
Quantize(b, bounds, d) ==
  LET extent == bounds.hi[d] - bounds.lo[d]
      num == (b.lo[d] + b.hi[d] - 2 * bounds.lo[d]) * Pow2(MortonBits)
  IN  IF extent = 0 THEN 0
      ELSE Min2(num \div (2 * extent), Pow2(MortonBits) - 1)

\* Bit k of axis d goes to bit k*NDIMS + (d-1) of the code.
RECURSIVE ExpandBits(_, _, _)
ExpandBits(q, d, k) ==
  IF k = MortonBits THEN 0
  ELSE ((q \div Pow2(k)) % 2) * Pow2(k * NDIMS + d - 1) + ExpandBits(q, d, k + 1)

RECURSIVE MortonSum(_, _, _)
MortonSum(b, bounds, d) ==
  IF d = 0 THEN 0
  ELSE ExpandBits(Quantize(b, bounds, d), d, 0) + MortonSum(b, bounds, d - 1)

MortonCode(b, bounds) == MortonSum(b, bounds, NDIMS)

\* Mutant of KeyLess: equal codes are ordered by falling original index.
MutKeyLess_TieByLargerIndex(mcodes, a, b) ==
  mcodes[a] < mcodes[b] \/ (mcodes[a] = mcodes[b] /\ a > b)

\* --------------------------------------------------------------- the sort
\* (code, original index) pairs in ascending order, ties by original index.
KeyLess(mcodes, a, b) ==
  mcodes[a] < mcodes[b] \/ (mcodes[a] = mcodes[b] /\ a < b)

\* leafs[k]: the original index of the box at sorted position k.
SortMcodes(mcodes, n) ==
  Arr(n, LAMBDA k :
    CHOOSE j \in 0 .. n - 1 :
      Cardinality({i \in 0 .. n - 1 : KeyLess(mcodes, i, j)}) = k)

\* ------------------------------------------------------------- radix tree
CodeBits == NDIMS * MortonBits

\* Length of the common prefix of the keys at sorted positions a and b; equal
\* codes are told apart by their positions; -1 when b is out of range.
Delta(codes, n, a, b) ==
  IF b < 0 \/ b > n - 1 THEN -1
  ELSE IF codes[a] = codes[b]
       THEN CodeBits + Clz(BitXor(a, b), IndexBits)
       ELSE Clz(BitXor(codes[a], codes[b]), CodeBits)

\* Upper bound of the length of the range of node i: doubled until the prefix
\* is no longer shared.
RECURSIVE RangeBound(_, _, _, _, _, _)
RangeBound(codes, n, i, d, minDelta, lmax) ==
  IF Delta(codes, n, i, i + lmax * d) > minDelta
  THEN RangeBound(codes, n, i, d, minDelta, 2 * lmax)
  ELSE lmax

\* Binary search of the other end of the range, steps t, t/2, ..., 1.
RECURSIVE RangeLength(_, _, _, _, _, _, _)
RangeLength(codes, n, i, d, minDelta, l, t) ==
  IF t < 1 THEN l
  ELSE RangeLength(codes, n, i, d, minDelta,
         IF Delta(codes, n, i, i + (l + t) * d) > minDelta THEN l + t ELSE l,
         t \div 2)

CeilDiv(a, b) == (a + b - 1) \div b

\* Binary search of the split: steps ceil(l/2), ceil(l/4), ..., 1.
RECURSIVE SplitOffset(_, _, _, _, _, _, _, _)
SplitOffset(codes, n, i, d, deltaNode, l, s, div) ==
  LET t  == CeilDiv(l, div)
      s2 == IF Delta(codes, n, i, i + (s + t) * d) > deltaNode THEN s + t ELSE s
  IN  IF t = 1 THEN s2
      ELSE SplitOffset(codes, n, i, d, deltaNode, l, s2, 2 * div)

\* Mutant of RadixNode: the range is split after its first key, wherever
\* the prefix boundary lies.
MutRadixNode_SplitAtFirst(codes, n, i) ==
  LET d == IF Delta(codes, n, i, i + 1) - Delta(codes, n, i, i - 1) < 0
           THEN -1 ELSE 1
      minDelta == Delta(codes, n, i, i - d)
      lmax == RangeBound(codes, n, i, d, minDelta, 2)
      l == RangeLength(codes, n, i, d, minDelta, 0, lmax \div 2)
      j == i + l * d
      split == Min2(i, j)
      innerSize == n - 1
  IN  [first |-> Min2(i, j), last |-> Max2(i, j), split |-> split,
       left  |-> IF Min2(i, j) = split THEN split + innerSize ELSE split,
       right |-> IF Max2(i, j) = split + 1 THEN split + 1 + innerSize
                 ELSE split + 1]

\* Internal node i of the radix tree over n sorted codes, computed from the
\* codes alone.  A child c < n-1 is internal node c; a child c >= n-1 is the
\* leaf at sorted position c - (n-1).
RadixNode(codes, n, i) ==
  LET d == IF Delta(codes, n, i, i + 1) - Delta(codes, n, i, i - 1) < 0
           THEN -1 ELSE 1
      minDelta == Delta(codes, n, i, i - d)
      lmax == RangeBound(codes, n, i, d, minDelta, 2)
      l == RangeLength(codes, n, i, d, minDelta, 0, lmax \div 2)
      j == i + l * d
      deltaNode == Delta(codes, n, i, j)
      s == SplitOffset(codes, n, i, d, deltaNode, l, 0, 2)
      split == i + s * d + Min2(d, 0)
      innerSize == n - 1
  IN  [first |-> Min2(i, j), last |-> Max2(i, j), split |-> split,
       left  |-> IF Min2(i, j) = split THEN split + innerSize ELSE split,
       right |-> IF Max2(i, j) = split + 1 THEN split + 1 + innerSize
                 ELSE split + 1]

\* build_radix_tree: scale the boxes, reduce the global bounds, encode, sort,
\* and compute every internal node.
\*   bounds      union of the input boxes (grid units, before scaling)
\*   leafs       sorted position -> original index
\*   leaf_aabbs  sorted position -> scaled box (fine units)
\*   nodes       internal node -> range, split and children
BuildRadixTree(boxes, n, sf) ==
  LET bounds == ReduceBounds(boxes, n)
      mcodes == Arr(n, LAMBDA j : MortonCode(BoxAt(boxes, j), bounds))
      leafs  == SortMcodes(mcodes, n)
      codes  == Arr(n, LAMBDA k : mcodes[leafs[k]])
  IN  [size |-> n,
       bounds |-> bounds,
       mcodes |-> codes,
       leafs |-> leafs,
       leaf_aabbs |-> Arr(n, LAMBDA k : ScaleBox(BoxAt(boxes, leafs[k]), sf)),
       nodes |-> Arr(n - 1, LAMBDA i : RadixNode(codes, n, i))]

\* ---------------------------------------------------------------- emitter
\* Bottom-up combination: the box of radix child c is the leaf's scaled box,
\* or the union of the boxes of the two children of internal node c.
RECURSIVE SubtreeBox(_, _)
SubtreeBox(rt, c) ==
  IF c >= rt.size - 1 THEN rt.leaf_aabbs[c - (rt.size - 1)]
  ELSE BoxUnion(SubtreeBox(rt, rt.nodes[c].left), SubtreeBox(rt, rt.nodes[c].right))

\* A child reference of the flattened tree: an internal node is its index, a
\* leaf slot k is -(k+1) (the sign bit tags a leaf).
EncodeChild(rt, c) == IF c >= rt.size - 1 THEN -(c - (rt.size - 1) + 1) ELSE c

\* Flattened inner node i: the two child boxes and the two child references.
EmitNode(rt, i) ==
  [left_box    |-> SubtreeBox(rt, rt.nodes[i].left),
   right_box   |-> SubtreeBox(rt, rt.nodes[i].right),
   left_child  |-> EncodeChild(rt, rt.nodes[i].left),
   right_child |-> EncodeChild(rt, rt.nodes[i].right)]

\* emit_bvh: the inner-node array and the leaf permutation.
EmitBvh(rt, bvh) ==
  [bvh EXCEPT !.inner_nodes = Arr(rt.size - 1, LAMBDA i : EmitNode(rt, i)),
              !.leaf_nodes  = Arr(rt.size, LAMBDA k : rt.leafs[k])]

\* -------------------------------------------------------------- traversal
\* Mutant of PointInRightBin: the right child is tested against the left box.
MutPointInRightBin_LeftBox(p, node) == PointInBox(p, node.left_box)

PointInLeftBin(p, node)  == PointInBox(p, node.left_box)
PointInRightBin(p, node) == PointInBox(p, node.right_box)

\* One descent with an explicit stack: current is the node at hand, todo the
\* stack of deferred children, out the leaf slots handed to the leaf action
\* so far, in order, visited the nodes that were at hand so far, in order.
\* The descent ends when the stack is empty at a pop; the stack it ends with
\* is part of the result.
RECURSIVE TraverseFrom(_, _, _, _, _, _)
TraverseFrom(inner_nodes, p, current, todo, out, visited) ==
  LET seen == Append(visited, current)
      Pop(o) == IF todo = << >> THEN [out |-> o, visited |-> seen, todo |-> todo]
                ELSE TraverseFrom(inner_nodes, p, todo[Len(todo)],
                                  SubSeq(todo, 1, Len(todo) - 1), o, seen)
  IN  IF current > -1
      THEN LET node == inner_nodes[current]
               inL  == PointInLeftBin(p, node)
               inR  == PointInRightBin(p, node)
           IN  IF ~inL /\ ~inR THEN Pop(out)
               ELSE TraverseFrom(inner_nodes, p,
                      IF inL THEN node.left_child ELSE node.right_child,
                      IF inL /\ inR THEN Append(todo, node.right_child) ELSE todo,
                      out, seen)
      ELSE Pop(Append(out, -current - 1))

\* bvh_traverse from the root, and the leaf slots it finds for p, in
\* visiting order.
TraverseRoot(inner_nodes, p) ==
  TraverseFrom(inner_nodes, p, 0, << >>, << >>, << >>)
BvhTraverse(inner_nodes, p) == TraverseRoot(inner_nodes, p).out

\* ------------------------------------------------------------ BVH::find
\* Mutant of CountQuery: every node visited is counted, not every leaf found.
MutCountQuery_CountsVisits(inner_nodes, pts, i) ==
  Len(TraverseRoot(inner_nodes, pts[i]).visited)

\* bvh_get_counts: counts[i] is the number of leaf actions of query i
\* (CountQuery is the work item of query i), and the reduction total_count
\* their sum.
CountQuery(inner_nodes, pts, i) == Len(BvhTraverse(inner_nodes, pts[i]))
BvhGetCounts(inner_nodes, N, pts) ==
  LET counts == Arr(N, LAMBDA i : CountQuery(inner_nodes, pts, i))
  IN  [counts |-> counts, total_count |-> SumTo(counts, N)]

\* Mutant of ExclusiveScan: an inclusive scan.
MutExclusiveScan_Inclusive(counts, N) == Arr(N, LAMBDA i : SumTo(counts, i + 1))

\* RAJA::exclusive_scan with plus: offsets[i] = counts[0] + ... + counts[i-1].
ExclusiveScan(counts, N) == Arr(N, LAMBDA i : SumTo(counts, i))

\* A freshly allocated candidates array: n slots nobody has written.
Unwritten == 0 - 1
AllocateCandidates(n) == Arr(n, LAMBDA k : Unwritten)

\* Mutant of FillQuery: the leaf slot is stored, not leaf_nodes[slot].
MutFillQuery_LeafSlot(buf, bvh, offsets, pts, i) ==
  LET found == BvhTraverse(bvh.inner_nodes, pts[i])
      slot(k) == offsets[i] + k - 1
      hit == {k \in 1 .. Len(found) : slot(k) \in DOMAIN buf.candidates}
  IN  [candidates |->
         [x \in DOMAIN buf.candidates |->
            IF \E k \in hit : slot(k) = x
            THEN found[CHOOSE k \in hit : slot(k) = x]
            ELSE buf.candidates[x]],
       oob |-> buf.oob \/ hit # 1 .. Len(found)]

\* Mutant of FillQuery: the queries share one running cursor (the number of
\* slots written so far) instead of each starting at offsets[i].
MutFillQuery_SharedCursor(buf, bvh, offsets, pts, i) ==
  LET hits == BvhTraverse(bvh.inner_nodes, pts[i])
      cursor == Cardinality({k \in DOMAIN buf.candidates :
                               buf.candidates[k] # Unwritten})
      slots == { cursor + k - 1 : k \in 1 .. Len(hits) }
  IN  [candidates |->
         [k \in DOMAIN buf.candidates |->
            IF k \in slots THEN bvh.leaf_nodes[hits[k - cursor + 1]]
            ELSE buf.candidates[k]] @@ EmptyArr,
       oob |-> buf.oob \/ ~(slots \subseteq DOMAIN buf.candidates)]

\* The fill work item of query i: descend again, writing leaf_nodes[leaf] at
\* candidates[offset] and advancing offset, from offset = offsets[i].
\* buf.oob records a write past the end of the allocation.
FillQuery(buf, bvh, offsets, pts, i) ==
  LET found == BvhTraverse(bvh.inner_nodes, pts[i])
      slot(k) == offsets[i] + k - 1
      hit == {k \in 1 .. Len(found) : slot(k) \in DOMAIN buf.candidates}
  IN  [candidates |->
         [x \in DOMAIN buf.candidates |->
            IF \E k \in hit : slot(k) = x
            THEN bvh.leaf_nodes[found[CHOOSE k \in hit : slot(k) = x]]
            ELSE buf.candidates[x]],
       oob |-> buf.oob \/ hit # 1 .. Len(found)]

\* Mutant of FillWrites: the running offset is not advanced.
MutFillWrites_NoAdvance(bvh, offsets, pts, i) ==
  LET found == BvhTraverse(bvh.inner_nodes, pts[i])
  IN  [k \in 1 .. Len(found) |->
         [query |-> i, ord |-> k, slot |-> offsets[i],
          value |-> bvh.leaf_nodes[found[k]]]]

\* The leaf actions of the fill work item of query i, in order: the k-th
\* stores leaf_nodes[current_node] at candidates[offset], offset having
\* started at offsets[i] and advanced once per earlier leaf action.
FillWrites(bvh, offsets, pts, i) ==
  LET found == BvhTraverse(bvh.inner_nodes, pts[i])
  IN  [k \in 1 .. Len(found) |->
         [query |-> i, ord |-> k, slot |-> offsets[i] + k - 1,
          value |-> bvh.leaf_nodes[found[k]]]]

\* The fill loop over queries 0 .. n-1, in index order.
RECURSIVE FillLoop(_, _, _, _, _)
FillLoop(buf, bvh, offsets, pts, n) ==
  IF n = 0 THEN buf
  ELSE FillQuery(FillLoop(buf, bvh, offsets, pts, n - 1), bvh, offsets, pts, n - 1)

\* find() on a sequential backend: count pass, scan, allocation, fill pass.
FindResult(bvh, numPts, pts) ==
  LET c       == BvhGetCounts(bvh.inner_nodes, numPts, pts)
      offsets == ExclusiveScan(c.counts, numPts)
      buf     == FillLoop([candidates |-> AllocateCandidates(c.total_count),
                           oob |-> FALSE],
                          bvh, offsets, pts, numPts)
  IN  [counts |-> c.counts, offsets |-> offsets,
       candidates |-> buf.candidates, oob |-> buf.oob]

\* ----------------------------------------------------------- BVH::build
\* Mutant of PadBoxes: the fake box comes first, the caller's box second.
MutPadBoxes_FakeFirst(myboxes) ==
  LET M == NDIMS * 2
      N == 2 * M
  IN  Arr(N, LAMBDA i : IF i < M THEN 0 ELSE myboxes[i - M])

\* Mutant of PadBoxes: the second box is a copy of the caller's box.
MutPadBoxes_Duplicate(myboxes) ==
  LET M == NDIMS * 2
      N == 2 * M
  IN  Arr(N, LAMBDA i : myboxes[i % M])

\* The single-box case: a second, fake box of zeros is appended (PadEntry is
\* the work item of entry i).
PadEntry(myboxes, i) == IF i < NDIMS * 2 THEN myboxes[i] ELSE 0
PadBoxes(myboxes) ==
  LET M == NDIMS * 2
      N == 2 * M
  IN  Arr(N, LAMBDA i : PadEntry(myboxes, i))

\* BVHData::allocate: fresh arrays for numBoxes leaves.
AllocateBvh(bvh, numBoxes) ==
  [bvh EXCEPT !.inner_nodes = EmptyArr, !.leaf_nodes = EmptyArr,
              !.allocated = TRUE]

\* Mutant of BuildBvh: the boxes are stored as given, not expanded.
MutBuildBvh_Unscaled(bvh, boxes, numItems, sf) ==
  LET numBoxes == IF numItems = 1 THEN 2 ELSE numItems
      boxesptr == IF numItems = 1 THEN PadBoxes(boxes) ELSE boxes
      radix_tree == BuildRadixTree(boxesptr, numBoxes, ScaleDen)
      withBounds == [bvh EXCEPT !.bounds = radix_tree.bounds]
  IN  EmitBvh(radix_tree, AllocateBvh(withBounds, numBoxes))

\* Mutant of BuildBvh: the scale factor set by the caller is ignored.
MutBuildBvh_DefaultScale(bvh, boxes, numItems, sf) ==
  LET numBoxes == IF numItems = 1 THEN 2 ELSE numItems
      boxesptr == IF numItems = 1 THEN PadBoxes(boxes) ELSE boxes
      radix_tree == BuildRadixTree(boxesptr, numBoxes, DEFAULT_SCALE_FACTOR)
      withBounds == [bvh EXCEPT !.bounds = radix_tree.bounds]
  IN  EmitBvh(radix_tree, AllocateBvh(withBounds, numBoxes))

\* Mutant of BuildBvh: a rebuild scales boxes the first build already scaled.
MutBuildBvh_RescaleOnRebuild(bvh, boxes, numItems, sf) ==
  LET numBoxes == IF numItems = 1 THEN 2 ELSE numItems
      boxesptr == IF numItems = 1 THEN PadBoxes(boxes) ELSE boxes
      sf2 == IF bvh.allocated THEN (sf * sf) \div ScaleDen ELSE sf
      radix_tree == BuildRadixTree(boxesptr, numBoxes, sf2)
      withBounds == [bvh EXCEPT !.bounds = radix_tree.bounds]
  IN  EmitBvh(radix_tree, AllocateBvh(withBounds, numBoxes))

\* Mutant of BuildBvh: the arrays are allocated after the emitter has run.
MutBuildBvh_AllocateAfterEmit(bvh, boxes, numItems, sf) ==
  LET numBoxes == IF numItems = 1 THEN 2 ELSE numItems
      boxesptr == IF numItems = 1 THEN PadBoxes(boxes) ELSE boxes
      radix_tree == BuildRadixTree(boxesptr, numBoxes, sf)
      withBounds == [bvh EXCEPT !.bounds = radix_tree.bounds]
  IN  AllocateBvh(EmitBvh(radix_tree, withBounds), numBoxes)

\* Steps 1 to 5 of build() for numItems >= 1: what m_bvh holds afterwards.
BuildBvh(bvh, boxes, numItems, sf) ==
  LET numBoxes == IF numItems = 1 THEN 2 ELSE numItems
      boxesptr == IF numItems = 1 THEN PadBoxes(boxes) ELSE boxes
      radix_tree == BuildRadixTree(boxesptr, numBoxes, sf)
      withBounds == [bvh EXCEPT !.bounds = radix_tree.bounds]
  IN  EmitBvh(radix_tree, AllocateBvh(withBounds, numBoxes))

\* ----------------------------------------------------------------- inputs
\* Boxes <<xmin, ymin, xmax, ymax>> the caller draws from: two overlapping
\* boxes and a zero-volume one.  Query points: one in the overlap, the origin
\* (a corner of the first box, and where the fake box of a single-box build
\* lies), and the place of the zero-volume box (outside the other two).
BoxPool == { <<0, 0, 4, 4>>, <<2, 2, 6, 6>>, <<6, 0, 6, 0>> }
PointPool == { <<3, 3>>, <<0, 0>>, <<6, 0>> }
ScaleFactors == { ScaleDen, DEFAULT_SCALE_FACTOR, 2 * ScaleDen }

HostAllocatorID == 0
ExecAllocatorID == 1
AllocatorIDs == { HostAllocatorID, ExecAllocatorID }

\* The flat array of a sequence of boxes.
FlatBoxes(bs) ==
  Arr(2 * NDIMS * Len(bs),
      LAMBDA i : bs[(i \div (2 * NDIMS)) + 1][(i % (2 * NDIMS)) + 1])

InputBoxSeqs == UNION { [1 .. n -> BoxPool] : n \in 0 .. MaxItems }
QueryBatches == UNION { [0 .. n - 1 -> PointPool] : n \in 0 .. MaxQueries }

ZeroBox    == MkBox([d \in Dims |-> 0], [d \in Dims |-> 0])
InvalidBox == MkBox([d \in Dims |-> 1], [d \in Dims |-> 0])

\* BVHData after construction: nothing allocated.
EmptyBvh ==
  [bounds |-> InvalidBox, inner_nodes |-> EmptyArr, leaf_nodes |-> EmptyArr,
   allocated |-> FALSE]

NoRet ==
  [op |-> "none", status |-> 0, bounds |-> ZeroBox, numPts |-> 0,
   pts |-> EmptyArr, counts |-> EmptyArr, offsets |-> EmptyArr,
   candidates |-> EmptyArr, oob |-> FALSE]

\* A radix tree nobody has allocated, and the locals of a call not started.
NoRadixTree ==
  [size |-> 0, bounds |-> InvalidBox, mcodes |-> EmptyArr, leafs |-> EmptyArr,
   leaf_aabbs |-> EmptyArr, nodes |-> EmptyArr, inner_aabbs |-> EmptyArr]
NoBuild ==
  [currentAllocatorID |-> HostAllocatorID, numBoxes |-> 0,
   boxesptr |-> EmptyArr, radix_tree |-> NoRadixTree]
NoFind ==
  [currentAllocatorID |-> HostAllocatorID, numPts |-> 0, pts |-> EmptyArr,
   counts |-> EmptyArr, total_count |-> 0, offsets |-> EmptyArr,
   buf |-> [candidates |-> EmptyArr, oob |-> FALSE],
   candidatesAllocatorID |-> HostAllocatorID]

\* ------------------------------------------------------------ BVH actions
\* BVH( boxes, numItems ): the state after construction.
Construct(bs) ==
  /\ m_scaleFactor = DEFAULT_SCALE_FACTOR
  /\ m_numItems = Len(bs)
  /\ m_boxes = FlatBoxes(bs)
  /\ m_bvh = EmptyBvh

\* The leaf actions of a fill pass: how many each query has made, and for
\* each the query, the slot of candidates it wrote and the value written.
NoFill == [leafActions |-> EmptyArr, writes |-> {}]

\* No build() or find() of the parallel backend has started.
ParIdle ==
  /\ h_fill = NoFill
  /\ h_entryAllocatorID = HostAllocatorID
  /\ p_pc = "idle"
  /\ p_done = {}
  /\ p_build = NoBuild
  /\ p_find = NoFind

\* The threads that call find() at the same time, and none of them in it.
FindThreads == {1, 2}
ConcIdle ==
  /\ c_pc = [t \in FindThreads |-> "idle"]
  /\ c_find = [t \in FindThreads |-> NoFind]

\* No bottom-up combination is under way.
CombIdle ==
  /\ k_counters = EmptyArr
  /\ k_worker = EmptyArr
  /\ k_earlyRead = FALSE
  /\ k_writes = EmptyArr

\* sidre::DataBuffer: the data pointer is null, a heap block or the caller's
\* external memory; the schema is the element type and the element count.
NullPtr == [kind |-> "null", block |-> 0]
ExternalPtr == [kind |-> "external", block |-> 0]
HeapPtr(k) == [kind |-> "heap", block |-> k]
HeapBlocks == {1, 2, 3}
TypeIDs == {"EMPTY_ID", "INT32_ID"}

\* DataBuffer( index ): no type, no data, empty schema, data not external.
NewDataBuffer(index) ==
  [m_index |-> index, m_type |-> "EMPTY_ID", num_elems |-> 0,
   m_data |-> NullPtr, m_is_data_external |-> FALSE]
NoBufRet == [op |-> "none", outcome |-> "returned", num_elems |-> 0]

\* One DataBuffer, as the DataStore has just created it.
BufferCreated ==
  /\ b_buffer = NewDataBuffer(0)
  /\ b_heap = {}
  /\ b_ret = NoBufRet
  /\ h_bufferBefore = NewDataBuffer(0)

\* sidre::DataStore: DataBuffer objects are told apart by their address;
\* NullObj is the null pointer, NoIndex marks an address with no live object.
ObjIds == 1 .. MaxBuffers
NullObj == 0
NoIndex == 0 - 1
NoStoreRet == [op |-> "none", obj |-> NullObj, idx |-> NoIndex,
               reused |-> FALSE]

\* DataStore(): no buffers.
StoreCreated ==
  /\ m_data_buffers = EmptyArr
  /\ m_free_buffer_ids = << >>
  /\ s_index = [o \in ObjIds |-> NoIndex]
  /\ s_ret = NoStoreRet

\* The heap as far as one BVH object uses it: blocks are numbered, 0 is the
\* null pointer.  A new BVH holds no arrays.
MaxBlocks == 5
LifeBlocks == 1 .. MaxBlocks
NoArrays == [inner_nodes |-> 0, leaf_nodes |-> 0]
LifeCreated ==
  /\ l_heap = {}
  /\ l_arrays = NoArrays
  /\ l_alive = TRUE
  /\ l_builds = 0

\* IAMesh(): no vertices, no elements, empty relations.
INVALID_INDEX == 0 - 1
EmptyMesh ==
  [vertex_set |-> EmptyArr, element_set |-> EmptyArr, ev_rel |-> EmptyArr,
   ve_rel |-> EmptyArr, ee_rel |-> EmptyArr]
NoMeshRet ==
  [op |-> "none", idx |-> INVALID_INDEX, before |-> EmptyMesh]
MeshCreated ==
  /\ ia_mesh = EmptyMesh
  /\ ia_ret = NoMeshRet

\* StructuredIndexing(): m_dimensions value-initialised, nothing converted.
IndexingCreated ==
  /\ m_dimensions = EmptyArr
  /\ q_index = 0 - 1
  /\ q_logical = EmptyArr
  /\ q_back = 0 - 1

\* The process around a freshly constructed BVH.
Constructed ==
  /\ LifeCreated
  /\ MeshCreated
  /\ IndexingCreated
  /\ ParIdle
  /\ ConcIdle
  /\ CombIdle
  /\ BufferCreated
  /\ StoreCreated
  /\ defaultAllocatorID = HostAllocatorID
  /\ aborted = FALSE
  /\ ret = NoRet
  /\ h_builtScale = 0
  /\ h_prevBvh = EmptyBvh
  /\ h_buildsInRow = 0

Init ==
  /\ \E bs \in InputBoxSeqs : Construct(bs)
  /\ Constructed

\* The caller is between two calls and holds no candidates array.
CallerReady == ~aborted /\ ret.op # "find"

SetScaleFactor(scale_factor) ==
  /\ UNCHANGED <<parVars, concVars, combVars, otherVars>>
  /\ CallerReady
  /\ m_scaleFactor' = scale_factor
  /\ ret' = [NoRet EXCEPT !.op = "setScaleFactor"]
  /\ h_buildsInRow' = IF scale_factor = m_scaleFactor THEN h_buildsInRow ELSE 0
  /\ h_prevBvh' = IF scale_factor = m_scaleFactor THEN h_prevBvh ELSE EmptyBvh
  /\ UNCHANGED <<m_numItems, m_boxes, m_bvh, defaultAllocatorID, aborted,
                 h_builtScale>>

\* build() over at least one item.
BuildItems ==
  /\ UNCHANGED <<parVars, concVars, combVars, otherVars>>
  /\ CallerReady
  /\ m_numItems >= 1
  /\ LET currentAllocatorID == defaultAllocatorID
     IN  /\ m_bvh' = BuildBvh(m_bvh, m_boxes, m_numItems, m_scaleFactor)
         /\ defaultAllocatorID' = currentAllocatorID
  /\ ret' = [NoRet EXCEPT !.op = "build", !.status = BVH_BUILD_OK]
  /\ h_builtScale' = m_scaleFactor
  /\ h_prevBvh' = IF h_buildsInRow >= 1 THEN m_bvh ELSE EmptyBvh
  /\ h_buildsInRow' = Min2(h_buildsInRow + 1, 2)
  /\ UNCHANGED <<m_scaleFactor, m_numItems, m_boxes, aborted>>

\* build() over zero items where the radix-tree builder does not check its
\* precondition: nothing is built and build() still returns BVH_BUILD_OK.
BuildZeroUnchecked ==
  /\ UNCHANGED <<parVars, concVars, combVars, otherVars>>
  /\ CallerReady
  /\ m_numItems = 0
  /\ LET currentAllocatorID == defaultAllocatorID
     IN  /\ m_bvh' = AllocateBvh([m_bvh EXCEPT !.bounds = InvalidBox], 0)
         /\ defaultAllocatorID' = currentAllocatorID
  /\ ret' = [NoRet EXCEPT !.op = "build", !.status = BVH_BUILD_OK]
  /\ h_builtScale' = m_scaleFactor
  /\ h_prevBvh' = IF h_buildsInRow >= 1 THEN m_bvh ELSE EmptyBvh
  /\ h_buildsInRow' = Min2(h_buildsInRow + 1, 2)
  /\ UNCHANGED <<m_scaleFactor, m_numItems, m_boxes, aborted>>

\* build() over zero items where the radix-tree builder asserts size > 0:
\* the process stops inside build(), the allocator swapped and not restored.
BuildZeroAsserted ==
  /\ UNCHANGED <<parVars, concVars, combVars, otherVars>>
  /\ CallerReady
  /\ m_numItems = 0
  /\ aborted' = TRUE
  /\ defaultAllocatorID' = ExecAllocatorID
  /\ ret' = [NoRet EXCEPT !.op = "build_aborted"]
  /\ UNCHANGED <<bvhVars, histVars>>

Build == BuildItems \/ BuildZeroUnchecked \/ BuildZeroAsserted

\* A tree over at least one item is installed.
Built == m_bvh.allocated /\ m_numItems >= 1

GetBounds ==
  /\ UNCHANGED <<parVars, concVars, combVars, otherVars>>
  /\ CallerReady
  /\ Built
  /\ ret' = [NoRet EXCEPT !.op = "getBounds", !.bounds = m_bvh.bounds]
  /\ UNCHANGED <<bvhVars, defaultAllocatorID, aborted, histVars>>

\* find() of a single-threaded caller on a sequential backend.
Find(numPts, pts) ==
  /\ UNCHANGED <<parVars, concVars, combVars, otherVars>>
  /\ CallerReady
  /\ Built
  /\ LET currentAllocatorID == defaultAllocatorID
         r == FindResult(m_bvh, numPts, pts)
     IN  /\ ret' = [NoRet EXCEPT !.op = "find", !.numPts = numPts, !.pts = pts,
                      !.counts = r.counts, !.offsets = r.offsets,
                      !.candidates = r.candidates, !.oob = r.oob]
         /\ defaultAllocatorID' = currentAllocatorID
  /\ UNCHANGED <<bvhVars, aborted, histVars>>

\* The caller is done with the candidates and deallocates them.
ReleaseCandidates ==
  /\ UNCHANGED <<parVars, concVars, combVars, otherVars>>
  /\ ~aborted
  /\ ret.op = "find"
  /\ ret' = NoRet
  /\ UNCHANGED <<bvhVars, defaultAllocatorID, aborted, histVars>>

Next ==
  \/ \E sf \in ScaleFactors : SetScaleFactor(sf)
  \/ Build
  \/ GetBounds
  \/ \E pts \in QueryBatches : Find(Len0(pts), pts)
  \/ ReleaseCandidates

Spec == Init /\ [][Next]_vars

\* The calls that make or change the tree, without the queries.
NextBuild ==
  \/ \E sf \in ScaleFactors : SetScaleFactor(sf)
  \/ Build
  \/ GetBounds

SpecBuild == Init /\ [][NextBuild]_vars

\* --------------------------------------------- build and find, item by item
\* The same build() and find() on a parallel backend.  Every for_all of the
\* code is a phase whose work items (one per array entry, box, tree node or
\* query) run one at a time in any order; the next phase starts when all
\* items of the phase have run.  Reductions, the sort, the scan and the
\* allocations are single steps between the phases.
ItemPhases == {"pad", "scale", "mcodes", "nodes", "combine", "emit",
               "count", "fill"}

PhaseItems(pc) ==
  CASE pc = "pad" -> 0 .. 2 * (NDIMS * 2) - 1
    [] pc \in {"scale", "mcodes"} -> 0 .. p_build.numBoxes - 1
    [] pc \in {"nodes", "combine", "emit"} -> 0 .. p_build.numBoxes - 2
    [] pc \in {"count", "fill"} -> 0 .. p_find.numPts - 1
    [] OTHER -> {}

NextPhase(pc) ==
  CASE pc = "pad" -> "scale"
    [] pc = "scale" -> "reduce"
    [] pc = "mcodes" -> "sort"
    [] pc = "nodes" -> "combine"
    [] pc = "combine" -> "install"
    [] pc = "emit" -> "buildend"
    [] pc = "count" -> "scan"
    [] pc = "fill" -> "findend"
    [] OTHER -> pc

\* Work item i of phase pc is ready to run.
ItemReady(pc, i) == p_pc = pc /\ i \in PhaseItems(pc) \ p_done

\* The state the item-by-item run never touches; the fill pass and the
\* start of find() also write the history of leaf actions.
parFrame == <<m_scaleFactor, m_numItems, m_boxes, aborted, h_prevBvh,
              h_buildsInRow, concVars, combVars, otherVars>>
callFrame == <<m_scaleFactor, m_numItems, m_boxes, aborted, h_prevBvh,
               h_buildsInRow, concVars, combVars, bufVars, storeVars,
               lifeVars, meshVars, idxVars>>
fillFrame == <<callFrame, allocVars>>

\* build() starts: the allocator is switched, and either the padded array is
\* allocated (one item) or the caller's array is used as it is.
ParBuildBegin ==
  /\ p_pc = "idle"
  /\ ~aborted
  /\ m_numItems >= 1
  /\ LET numBoxes == IF m_numItems = 1 THEN 2 ELSE m_numItems
     IN  p_build' =
           [currentAllocatorID |-> defaultAllocatorID,
            numBoxes |-> numBoxes,
            boxesptr |-> IF m_numItems = 1
                           THEN Arr(2 * (NDIMS * 2), LAMBDA i : Unwritten)
                           ELSE m_boxes,
            radix_tree |->
              [NoRadixTree EXCEPT
                 !.size = numBoxes,
                 !.mcodes = Arr(numBoxes, LAMBDA j : Unwritten),
                 !.leafs = Arr(numBoxes, LAMBDA j : Unwritten),
                 !.leaf_aabbs = Arr(numBoxes, LAMBDA j : Unwritten),
                 !.nodes = Arr(numBoxes - 1, LAMBDA j : Unwritten),
                 !.inner_aabbs = Arr(numBoxes - 1, LAMBDA j : Unwritten)]]
  /\ defaultAllocatorID' = ExecAllocatorID
  /\ p_pc' = IF m_numItems = 1 THEN "pad" ELSE "scale"
  /\ p_done' = {}
  /\ h_entryAllocatorID' = defaultAllocatorID
  /\ UNCHANGED <<callFrame, fillVars, m_bvh, ret, h_builtScale, p_find>>

\* Work item i of the padding loop writes entry i of the padded array.
PadItem(i) ==
  /\ ItemReady("pad", i)
  /\ p_build' = [p_build EXCEPT !.boxesptr[i] = PadEntry(m_boxes, i)]
  /\ p_done' = p_done \cup {i}
  /\ UNCHANGED <<parFrame, m_bvh, ret, h_builtScale, defaultAllocatorID,
                 p_pc, p_find>>

\* Work item j of the box transform: box j, scaled about its centre.
TransformItem(j) ==
  /\ ItemReady("scale", j)
  /\ p_build' = [p_build EXCEPT !.radix_tree.leaf_aabbs[j] =
                   ScaleBox(BoxAt(p_build.boxesptr, j), m_scaleFactor)]
  /\ p_done' = p_done \cup {j}
  /\ UNCHANGED <<parFrame, m_bvh, ret, h_builtScale, defaultAllocatorID,
                 p_pc, p_find>>

\* The min/max reduction over the boxes: the global bounds.
ReduceStep ==
  /\ p_pc = "reduce"
  /\ p_build' = [p_build EXCEPT !.radix_tree.bounds =
                   ReduceBounds(p_build.boxesptr, p_build.numBoxes)]
  /\ p_pc' = "mcodes"
  /\ UNCHANGED <<parFrame, m_bvh, ret, h_builtScale, defaultAllocatorID,
                 p_done, p_find>>

\* Work item j of the Morton pass: the code of box j.
McodeItem(j) ==
  /\ ItemReady("mcodes", j)
  /\ p_build' = [p_build EXCEPT !.radix_tree.mcodes[j] =
                   MortonCode(BoxAt(p_build.boxesptr, j),
                              p_build.radix_tree.bounds)]
  /\ p_done' = p_done \cup {j}
  /\ UNCHANGED <<parFrame, m_bvh, ret, h_builtScale, defaultAllocatorID,
                 p_pc, p_find>>

\* The sort: the leaf permutation, and codes and boxes put in its order.
SortStep ==
  /\ p_pc = "sort"
  /\ LET rt == p_build.radix_tree
         n == rt.size
         leafs == SortMcodes(rt.mcodes, n)
     IN  p_build' = [p_build EXCEPT
           !.radix_tree.leafs = leafs,
           !.radix_tree.mcodes = Arr(n, LAMBDA k : rt.mcodes[leafs[k]]),
           !.radix_tree.leaf_aabbs = Arr(n, LAMBDA k : rt.leaf_aabbs[leafs[k]])]
  /\ p_pc' = "nodes"
  /\ UNCHANGED <<parFrame, m_bvh, ret, h_builtScale, defaultAllocatorID,
                 p_done, p_find>>

\* Work item i of the internal-node pass: the range, the split and the two
\* children of internal node i.
NodeItem(i) ==
  /\ ItemReady("nodes", i)
  /\ p_build' = [p_build EXCEPT !.radix_tree.nodes[i] =
                   RadixNode(p_build.radix_tree.mcodes, p_build.numBoxes, i)]
  /\ p_done' = p_done \cup {i}
  /\ UNCHANGED <<parFrame, m_bvh, ret, h_builtScale, defaultAllocatorID,
                 p_pc, p_find>>

\* The box of radix child c while the tree is combined bottom-up.
ChildBox(rt, c) ==
  IF c >= rt.size - 1 THEN rt.leaf_aabbs[c - (rt.size - 1)]
  ELSE rt.inner_aabbs[c]

\* Child c of a node has its box: a leaf always, an internal node once it
\* has been combined.
ChildCombined(rt, c) == c >= rt.size - 1 \/ c \in p_done

\* Work item i of the bottom-up combination: the box of internal node i is
\* the union of its children's boxes, once both are there.
CombineItem(i) ==
  /\ ItemReady("combine", i)
  /\ LET rt == p_build.radix_tree
     IN  /\ ChildCombined(rt, rt.nodes[i].left)
         /\ ChildCombined(rt, rt.nodes[i].right)
         /\ p_build' = [p_build EXCEPT !.radix_tree.inner_aabbs[i] =
                          BoxUnion(ChildBox(rt, rt.nodes[i].left),
                                   ChildBox(rt, rt.nodes[i].right))]
  /\ p_done' = p_done \cup {i}
  /\ UNCHANGED <<parFrame, m_bvh, ret, h_builtScale, defaultAllocatorID,
                 p_pc, p_find>>

\* build() stores the bounds and allocates the flattened tree; the emitter
\* copies the leaf permutation.
InstallStep ==
  /\ p_pc = "install"
  /\ LET rt == p_build.radix_tree
         withBounds == [m_bvh EXCEPT !.bounds = rt.bounds]
     IN  m_bvh' = [AllocateBvh(withBounds, p_build.numBoxes) EXCEPT
                     !.inner_nodes = Arr(rt.size - 1, LAMBDA i : Unwritten),
                     !.leaf_nodes = Arr(rt.size, LAMBDA k : rt.leafs[k])]
  /\ p_pc' = "emit"
  /\ UNCHANGED <<parFrame, ret, h_builtScale, defaultAllocatorID, p_done,
                 p_build, p_find>>

\* Work item i of the emitter: flattened inner node i.
EmitItem(i) ==
  /\ ItemReady("emit", i)
  /\ LET rt == p_build.radix_tree
         nd == rt.nodes[i]
     IN  m_bvh' = [m_bvh EXCEPT !.inner_nodes[i] =
                     [left_box    |-> ChildBox(rt, nd.left),
                      right_box   |-> ChildBox(rt, nd.right),
                      left_child  |-> EncodeChild(rt, nd.left),
                      right_child |-> EncodeChild(rt, nd.right)]]
  /\ p_done' = p_done \cup {i}
  /\ UNCHANGED <<parFrame, ret, h_builtScale, defaultAllocatorID, p_pc,
                 p_build, p_find>>

\* build() frees the radix tree and the padded array, restores the
\* allocator and returns BVH_BUILD_OK.
ParBuildEnd ==
  /\ p_pc = "buildend"
  /\ defaultAllocatorID' = p_build.currentAllocatorID
  /\ p_build' = NoBuild
  /\ ret' = [NoRet EXCEPT !.op = "build", !.status = BVH_BUILD_OK]
  /\ h_builtScale' = m_scaleFactor
  /\ p_pc' = "built"
  /\ UNCHANGED <<parFrame, m_bvh, p_done, p_find>>

\* find() starts: the allocator is switched and the count pass is launched.
ParFindBegin(numPts, pts) ==
  /\ p_pc = "built"
  /\ p_find' = [NoFind EXCEPT
                  !.currentAllocatorID = defaultAllocatorID,
                  !.numPts = numPts, !.pts = pts,
                  !.counts = Arr(numPts, LAMBDA i : Unwritten),
                  !.offsets = Arr(numPts, LAMBDA i : Unwritten)]
  /\ defaultAllocatorID' = ExecAllocatorID
  /\ h_fill' = [NoFill EXCEPT !.leafActions = Arr(numPts, LAMBDA i : 0)]
  /\ p_pc' = "count"
  /\ h_entryAllocatorID' = defaultAllocatorID
  /\ UNCHANGED <<callFrame, m_bvh, ret, h_builtScale, p_done, p_build>>

\* Work item i of the count pass: counts[i], added to the reduction.
CountItem(i) ==
  /\ ItemReady("count", i)
  /\ LET count == CountQuery(m_bvh.inner_nodes, p_find.pts, i)
     IN  p_find' = [p_find EXCEPT !.counts[i] = count,
                                  !.total_count = @ + count]
  /\ p_done' = p_done \cup {i}
  /\ UNCHANGED <<parFrame, m_bvh, ret, h_builtScale, defaultAllocatorID,
                 p_pc, p_build>>

\* The exclusive scan of counts into offsets.
ScanStep ==
  /\ p_pc = "scan"
  /\ p_find' = [p_find EXCEPT
                  !.offsets = ExclusiveScan(p_find.counts, p_find.numPts)]
  /\ p_pc' = "alloc"
  /\ UNCHANGED <<parFrame, m_bvh, ret, h_builtScale, defaultAllocatorID,
                 p_done, p_build>>

\* The candidates array is allocated with total_count entries.
AllocStep ==
  /\ p_pc = "alloc"
  /\ p_find' = [p_find EXCEPT
                  !.buf = [candidates |-> AllocateCandidates(p_find.total_count),
                           oob |-> FALSE],
                  !.candidatesAllocatorID = defaultAllocatorID]
  /\ p_pc' = "fill"
  /\ UNCHANGED <<parFrame, m_bvh, ret, h_builtScale, defaultAllocatorID,
                 p_done, p_build>>

\* Work item i of the fill pass: query i writes its candidates.
FillItem(i) ==
  /\ ItemReady("fill", i)
  /\ p_find' = [p_find EXCEPT
                  !.buf = FillQuery(p_find.buf, m_bvh, p_find.offsets,
                                    p_find.pts, i)]
  /\ LET w == FillWrites(m_bvh, p_find.offsets, p_find.pts, i)
     IN  h_fill' = [leafActions |-> [h_fill.leafActions EXCEPT ![i] = Len(w)],
                    writes |-> h_fill.writes \cup
                                 { w[k] : k \in DOMAIN w }]
  /\ p_done' = p_done \cup {i}
  /\ UNCHANGED <<fillFrame, m_bvh, ret, h_builtScale, defaultAllocatorID,
                 p_pc, p_build>>

\* Mutant of ParFindEnd: find() returns without restoring the allocator.
MutParFindEnd_NoRestore ==
  /\ p_pc = "findend"
  /\ ret' = [NoRet EXCEPT !.op = "find", !.numPts = p_find.numPts,
               !.pts = p_find.pts, !.counts = p_find.counts,
               !.offsets = p_find.offsets,
               !.candidates = p_find.buf.candidates, !.oob = p_find.buf.oob]
  /\ p_find' = NoFind
  /\ p_pc' = "done"
  /\ UNCHANGED <<parFrame, m_bvh, h_builtScale, p_done, p_build,
                 defaultAllocatorID>>

\* find() restores the allocator and hands the three arrays to the caller.
ParFindEnd ==
  /\ p_pc = "findend"
  /\ ret' = [NoRet EXCEPT !.op = "find", !.numPts = p_find.numPts,
               !.pts = p_find.pts, !.counts = p_find.counts,
               !.offsets = p_find.offsets,
               !.candidates = p_find.buf.candidates, !.oob = p_find.buf.oob]
  /\ defaultAllocatorID' = p_find.currentAllocatorID
  /\ p_find' = NoFind
  /\ p_pc' = "done"
  /\ UNCHANGED <<parFrame, m_bvh, h_builtScale, p_done, p_build>>

\* Mutant of Barrier: after the count pass the next phase starts while work
\* items are still to run.
MutBarrier_NoWaitForCounts ==
  /\ p_pc \in ItemPhases
  /\ p_pc = "count" \/ p_done = PhaseItems(p_pc)
  /\ p_pc' = NextPhase(p_pc)
  /\ p_done' = {}
  /\ UNCHANGED <<parFrame, m_bvh, ret, h_builtScale, defaultAllocatorID,
                 p_build, p_find>>

\* The end of a for_all: every work item has run, the next phase starts.
Barrier ==
  /\ p_pc \in ItemPhases
  /\ p_done = PhaseItems(p_pc)
  /\ p_pc' = NextPhase(p_pc)
  /\ p_done' = {}
  /\ UNCHANGED <<parFrame, m_bvh, ret, h_builtScale, defaultAllocatorID,
                 p_build, p_find>>

NextPar ==
  \/ ParBuildBegin
  \/ \E i \in PhaseItems("pad") : PadItem(i)
  \/ \E j \in PhaseItems("scale") : TransformItem(j)
  \/ ReduceStep
  \/ \E j \in PhaseItems("mcodes") : McodeItem(j)
  \/ SortStep
  \/ \E i \in PhaseItems("nodes") : NodeItem(i)
  \/ \E i \in PhaseItems("combine") : CombineItem(i)
  \/ InstallStep
  \/ \E i \in PhaseItems("emit") : EmitItem(i)
  \/ ParBuildEnd
  \/ \E pts \in QueryBatches : ParFindBegin(Len0(pts), pts)
  \/ \E i \in PhaseItems("count") : CountItem(i)
  \/ ScanStep
  \/ AllocStep
  \/ \E i \in PhaseItems("fill") : FillItem(i)
  \/ ParFindEnd
  \/ Barrier

SpecPar == Init /\ [][NextPar]_vars

\* Between two calls the single-threaded caller makes another allocator the
\* process-wide default.
CallerSetsDefaultAllocator(id) ==
  /\ p_pc \in {"idle", "built", "done"}
  /\ id # defaultAllocatorID
  /\ defaultAllocatorID' = id
  /\ ret' = [NoRet EXCEPT !.op = "setDefaultAllocator"]
  /\ UNCHANGED <<parFrame, m_bvh, h_builtScale, parVars>>

NextAlloc ==
  \/ NextPar
  \/ \E id \in AllocatorIDs : CallerSetsDefaultAllocator(id)

SpecAlloc == Init /\ [][NextAlloc]_vars

\* ------------------------------------------------- concurrent find() calls
\* Several threads call find() on the same BVH at the same time, each with
\* its own query batch and its own output arrays.  What the calls share is
\* the tree and the process-wide default allocator, so each read or write of
\* one of them is a step of its own.
ConcInputs == { bs \in InputBoxSeqs : Len(bs) \in {1, 2} }
ConcBatches ==
  { (0 :> <<3, 3>>) @@ (1 :> <<6, 0>>),
    (0 :> <<0, 0>>) @@ (1 :> <<3, 3>>),
    (0 :> <<6, 0>>) }

InitConc ==
  /\ \E bs \in ConcInputs : Construct(bs)
  /\ Constructed

\* What a step of one find() call never touches.
concFrame == <<bvhVars, aborted, ret, histVars, parVars, combVars,
               otherVars>>

\* The one build() before the threads start: nobody is inside find().
ConcBuild ==
  /\ \A t \in FindThreads : c_pc[t] = "idle"
  /\ ~m_bvh.allocated
  /\ BuildItems

\* find() is entered and reads the default allocator.
ConcFindBegin(t, numPts, pts) ==
  /\ c_pc[t] = "idle"
  /\ ~aborted
  /\ Built
  /\ c_find' = [c_find EXCEPT ![t] =
                  [NoFind EXCEPT
                     !.currentAllocatorID = defaultAllocatorID,
                     !.numPts = numPts, !.pts = pts,
                     !.counts = Arr(numPts, LAMBDA i : Unwritten),
                     !.offsets = Arr(numPts, LAMBDA i : Unwritten)]]
  /\ c_pc' = [c_pc EXCEPT ![t] = "saved"]
  /\ UNCHANGED <<concFrame, defaultAllocatorID>>

\* find() makes the execution space's allocator the default.
ConcSetAllocator(t) ==
  /\ c_pc[t] = "saved"
  /\ defaultAllocatorID' = ExecAllocatorID
  /\ c_pc' = [c_pc EXCEPT ![t] = "set"]
  /\ UNCHANGED <<concFrame, c_find>>

\* Mutant of ConcCount: the reduction of the count pass is one accumulator
\* shared by all the calls.
MutConcCount_SharedTotal(t) ==
  /\ c_pc[t] = "set"
  /\ LET r == BvhGetCounts(m_bvh.inner_nodes, c_find[t].numPts, c_find[t].pts)
     IN  c_find' = [u \in FindThreads |->
                      IF u = t
                        THEN [c_find[u] EXCEPT !.counts = r.counts,
                                               !.total_count = @ + r.total_count]
                        ELSE [c_find[u] EXCEPT !.total_count = @ + r.total_count]]
  /\ c_pc' = [c_pc EXCEPT ![t] = "counted"]
  /\ UNCHANGED <<concFrame, defaultAllocatorID>>

\* The count pass of the call: its counts array and its own total.
ConcCount(t) ==
  /\ c_pc[t] = "set"
  /\ LET r == BvhGetCounts(m_bvh.inner_nodes, c_find[t].numPts, c_find[t].pts)
     IN  c_find' = [c_find EXCEPT ![t].counts = r.counts,
                                  ![t].total_count = r.total_count]
  /\ c_pc' = [c_pc EXCEPT ![t] = "counted"]
  /\ UNCHANGED <<concFrame, defaultAllocatorID>>

\* The exclusive scan of the call's counts into its offsets.
ConcScan(t) ==
  /\ c_pc[t] = "counted"
  /\ c_find' = [c_find EXCEPT ![t].offsets =
                  ExclusiveScan(c_find[t].counts, c_find[t].numPts)]
  /\ c_pc' = [c_pc EXCEPT ![t] = "scanned"]
  /\ UNCHANGED <<concFrame, defaultAllocatorID>>

\* The candidates array comes from whatever the default allocator is now.
ConcAllocate(t) ==
  /\ c_pc[t] = "scanned"
  /\ c_find' = [c_find EXCEPT
                  ![t].buf = [candidates |->
                                AllocateCandidates(c_find[t].total_count),
                              oob |-> FALSE],
                  ![t].candidatesAllocatorID = defaultAllocatorID]
  /\ c_pc' = [c_pc EXCEPT ![t] = "allocated"]
  /\ UNCHANGED <<concFrame, defaultAllocatorID>>

\* The fill pass of the call.
ConcFill(t) ==
  /\ c_pc[t] = "allocated"
  /\ c_find' = [c_find EXCEPT ![t].buf =
                  FillLoop(c_find[t].buf, m_bvh, c_find[t].offsets,
                           c_find[t].pts, c_find[t].numPts)]
  /\ c_pc' = [c_pc EXCEPT ![t] = "filled"]
  /\ UNCHANGED <<concFrame, defaultAllocatorID>>

\* find() puts back the allocator it read on entry and returns.
ConcRestore(t) ==
  /\ c_pc[t] = "filled"
  /\ defaultAllocatorID' = c_find[t].currentAllocatorID
  /\ c_pc' = [c_pc EXCEPT ![t] = "done"]
  /\ UNCHANGED <<concFrame, c_find>>

\* The caller of the call is done with its candidates and frees them.
ConcRelease(t) ==
  /\ c_pc[t] = "done"
  /\ c_find' = [c_find EXCEPT ![t] = NoFind]
  /\ c_pc' = [c_pc EXCEPT ![t] = "idle"]
  /\ UNCHANGED <<concFrame, defaultAllocatorID>>

NextConc ==
  \/ ConcBuild
  \/ \E t \in FindThreads, pts \in ConcBatches :
       ConcFindBegin(t, Len0(pts), pts)
  \/ \E t \in FindThreads : ConcSetAllocator(t)
  \/ \E t \in FindThreads : ConcCount(t)
  \/ \E t \in FindThreads : ConcScan(t)
  \/ \E t \in FindThreads : ConcAllocate(t)
  \/ \E t \in FindThreads : ConcFill(t)
  \/ \E t \in FindThreads : ConcRestore(t)
  \/ \E t \in FindThreads : ConcRelease(t)

SpecConc == InitConc /\ [][NextConc]_vars

\* ------------------------------------------------- build() that fails
\* build() has no failure path of its own: an allocation that fails inside
\* it leaves build() by an exception, at the place of the allocation, with
\* whatever build() has stored so far.  Between builds the caller may write
\* new coordinates into the box array the BVH points to (here: move box 0).
failFrame == <<m_scaleFactor, m_numItems, aborted, h_builtScale, parVars,
               concVars, combVars, otherVars>>

\* The caller overwrites box j of its array with box b.
UpdateBoxes(j, b) ==
  /\ CallerReady
  /\ j \in 0 .. m_numItems - 1
  /\ \E k \in 0 .. 2 * NDIMS - 1 : m_boxes[2 * NDIMS * j + k] # b[k + 1]
  /\ m_boxes' = [i \in DOMAIN m_boxes |->
                   IF i \div (2 * NDIMS) = j THEN b[(i % (2 * NDIMS)) + 1]
                   ELSE m_boxes[i]] @@ EmptyArr
  /\ ret' = [NoRet EXCEPT !.op = "updateBoxes"]
  /\ h_prevBvh' = EmptyBvh
  /\ h_buildsInRow' = 0
  /\ UNCHANGED <<failFrame, m_bvh, defaultAllocatorID>>

\* The allocation of the padded array or an allocation inside the radix-tree
\* builder fails: build() is left before it has touched m_bvh.
BuildThrowsInRadixTree ==
  /\ CallerReady
  /\ m_numItems >= 1
  /\ defaultAllocatorID' = ExecAllocatorID
  /\ ret' = [NoRet EXCEPT !.op = "build_threw"]
  /\ h_prevBvh' = m_bvh
  /\ h_buildsInRow' = 0
  /\ UNCHANGED <<failFrame, m_boxes, m_bvh>>

\* m_bvh.allocate fails: build() has already stored the new bounds.
BuildThrowsInAllocate ==
  /\ CallerReady
  /\ m_numItems >= 1
  /\ LET numBoxes == IF m_numItems = 1 THEN 2 ELSE m_numItems
         boxesptr == IF m_numItems = 1 THEN PadBoxes(m_boxes) ELSE m_boxes
         global_bounds == ReduceBounds(boxesptr, numBoxes)
     IN  m_bvh' = [m_bvh EXCEPT !.bounds = global_bounds]
  /\ defaultAllocatorID' = ExecAllocatorID
  /\ ret' = [NoRet EXCEPT !.op = "build_threw"]
  /\ h_prevBvh' = m_bvh
  /\ h_buildsInRow' = 0
  /\ UNCHANGED <<failFrame, m_boxes>>

NextFail ==
  \/ BuildItems
  \/ \E b \in BoxPool : UpdateBoxes(0, b)
  \/ BuildThrowsInRadixTree
  \/ BuildThrowsInAllocate

SpecFail == Init /\ [][NextFail]_vars

\* ------------------------------------- bottom-up combination, leaf workers
\* The combination by arrival counters: one worker per leaf climbs from its
\* leaf towards the root.  At each node it adds one to the node's counter,
\* atomically; the first worker to arrive stops there, the second reads the
\* boxes of both children, writes the node's box and climbs on.  Each step
\* of a worker is a step of its own, the workers interleave freely.
combFrame == <<bvhVars, defaultAllocatorID, aborted, ret, histVars, concVars,
               p_find, otherVars>>

\* The node of which radix child c is a child.
ParentOf(rt, c) ==
  CHOOSE i \in DOMAIN rt.nodes : rt.nodes[i].left = c \/ rt.nodes[i].right = c

\* What an unwritten box can read as.
UninitBoxes == { InvalidBox, ZeroBox }

\* The box of radix child c as a worker reads it now.
ReadChildBox(rt, c, junk) ==
  IF ChildCombined(rt, c) THEN ChildBox(rt, c) ELSE junk

\* build() has run up to the end of the internal-node pass; the counters are
\* zeroed and one worker per leaf is started at the parent of its leaf.
CombBegin ==
  /\ p_pc = "idle"
  /\ ~aborted
  /\ m_numItems >= 1
  /\ k_worker = EmptyArr
  /\ LET numBoxes == IF m_numItems = 1 THEN 2 ELSE m_numItems
         boxesptr == IF m_numItems = 1 THEN PadBoxes(m_boxes) ELSE m_boxes
         rt == BuildRadixTree(boxesptr, numBoxes, m_scaleFactor)
     IN  /\ p_build' =
               [currentAllocatorID |-> defaultAllocatorID,
                numBoxes |-> numBoxes,
                boxesptr |-> boxesptr,
                radix_tree |->
                  [size |-> rt.size, bounds |-> rt.bounds, mcodes |-> rt.mcodes,
                   leafs |-> rt.leafs, leaf_aabbs |-> rt.leaf_aabbs,
                   nodes |-> rt.nodes,
                   inner_aabbs |-> Arr(numBoxes - 1, LAMBDA i : Unwritten)]]
         /\ k_counters' = Arr(numBoxes - 1, LAMBDA i : 0)
         /\ k_worker' = Arr(numBoxes, LAMBDA l :
                          [pc |-> "arrive",
                           node |-> ParentOf(rt, l + (numBoxes - 1))])
  /\ k_earlyRead' = FALSE
  /\ k_writes' = Arr((IF m_numItems = 1 THEN 2 ELSE m_numItems) - 1,
                     LAMBDA i : 0)
  /\ defaultAllocatorID' = ExecAllocatorID
  /\ p_pc' = "combine"
  /\ p_done' = {}
  /\ UNCHANGED <<m_scaleFactor, m_numItems, m_boxes, m_bvh, aborted, ret,
                 histVars, concVars, p_find, otherVars>>

\* Mutant of WorkerArrive: the first worker to arrive at a node goes on to
\* combine it as well.
MutWorkerArrive_FirstGoesOn(l) ==
  /\ p_pc = "combine"
  /\ l \in DOMAIN k_worker
  /\ k_worker[l].pc = "arrive"
  /\ k_counters' = [k_counters EXCEPT ![k_worker[l].node] = @ + 1]
  /\ k_worker' = [k_worker EXCEPT ![l].pc = "combine"]
  /\ UNCHANGED <<combFrame, p_pc, p_done, p_build, k_earlyRead, k_writes>>

\* Mutant of WorkerArrive: the second worker to arrive stops as well.
MutWorkerArrive_BothStop(l) ==
  /\ p_pc = "combine"
  /\ l \in DOMAIN k_worker
  /\ k_worker[l].pc = "arrive"
  /\ k_counters' = [k_counters EXCEPT ![k_worker[l].node] = @ + 1]
  /\ k_worker' = [k_worker EXCEPT ![l].pc = "done"]
  /\ UNCHANGED <<combFrame, p_pc, p_done, p_build, k_earlyRead, k_writes>>

\* Worker l arrives at its node: the atomic add returns the old count; the
\* first to arrive stops, the second goes on to combine the node.
WorkerArrive(l) ==
  /\ p_pc = "combine"
  /\ l \in DOMAIN k_worker
  /\ k_worker[l].pc = "arrive"
  /\ LET node == k_worker[l].node
         old == k_counters[node]
     IN  /\ k_counters' = [k_counters EXCEPT ![node] = old + 1]
         /\ k_worker' = [k_worker EXCEPT
                           ![l].pc = IF old = 0 THEN "done" ELSE "combine"]
  /\ UNCHANGED <<combFrame, p_pc, p_done, p_build, k_earlyRead, k_writes>>

\* Worker l reads the boxes of both children of its node, writes the node's
\* box, and moves to the node's parent (the root has none).
WorkerCombine(l, junk) ==
  /\ p_pc = "combine"
  /\ l \in DOMAIN k_worker
  /\ k_worker[l].pc = "combine"
  /\ LET rt == p_build.radix_tree
         node == k_worker[l].node
         left == rt.nodes[node].left
         right == rt.nodes[node].right
     IN  /\ k_worker' = [k_worker EXCEPT ![l] =
                           IF node = 0 THEN [pc |-> "done", node |-> 0]
                           ELSE [pc |-> "arrive", node |-> ParentOf(rt, node)]]
         /\ k_earlyRead' = (k_earlyRead \/ ~ChildCombined(rt, left)
                                        \/ ~ChildCombined(rt, right))
         /\ p_build' = [p_build EXCEPT !.radix_tree.inner_aabbs[node] =
                          BoxUnion(ReadChildBox(rt, left, junk),
                                   ReadChildBox(rt, right, junk))]
         /\ p_done' = p_done \cup {node}
         /\ k_writes' = [k_writes EXCEPT ![node] = @ + 1]
  /\ UNCHANGED <<combFrame, p_pc, k_counters>>

\* All workers have stopped: the combination phase is over.
CombEnd ==
  /\ p_pc = "combine"
  /\ k_worker # EmptyArr
  /\ \A l \in DOMAIN k_worker : k_worker[l].pc = "done"
  /\ p_pc' = "install"
  /\ UNCHANGED <<combFrame, p_done, p_build, combVars>>

NextComb ==
  \/ CombBegin
  \/ \E l \in 0 .. MaxItems : WorkerArrive(l)
  \/ \E l \in 0 .. MaxItems, junk \in UninitBoxes : WorkerCombine(l, junk)
  \/ CombEnd

SpecComb == Init /\ [][NextComb]_vars

\* A step of worker l: it arrives at its node or combines it.
WorkerStep(l) ==
  /\ p_pc = "combine"
  /\ l \in DOMAIN k_worker
  /\ \/ WorkerArrive(l)
     \/ \E junk \in UninitBoxes : WorkerCombine(l, junk)

\* Every worker that can take a step takes it in the end, and so does the
\* thread that waits for the workers.
combPos == <<k_worker, p_pc>>
SpecCombFair ==
  /\ SpecComb
  /\ \A l \in 0 .. MaxItems : WF_combPos(WorkerStep(l))
  /\ WF_combPos(CombEnd)

\* ------------------------------------------------------ sidre::DataBuffer
\* One DataBuffer and the calls of its owner.  The SLIC_ASSERT_MSG checks are
\* compiled in only in debug builds: a call whose assertion fails either
\* stops the process there (BufAssertAbort) or runs on without the check.
\* size_t is modelled SizeBits wide.
bufFrame == <<bvhVars, defaultAllocatorID, aborted, ret, histVars, parVars,
              concVars, combVars, storeVars, fillVars, allocVars, lifeVars,
              meshVars, idxVars>>

SizeBits == 16
SizeMod == 2 ^ SizeBits
MaxBlockBytes == 64
TypeSize(type) == IF type = "INT32_ID" THEN 4 ELSE 0
NumElemsPool == {0 - 1, 0, 2, 3}

\* getTotalBytes: the schema's byte count, as a size_t.
TotalBytes(type, num_elems) == (num_elems * TypeSize(type)) % SizeMod

BufAlive == b_ret.outcome # "aborted"
BufCall(op, num_elems, outcome) ==
  /\ b_ret' = [op |-> op, outcome |-> outcome, num_elems |-> num_elems]
  /\ h_bufferBefore' = b_buffer

\* cleanup(): a heap block the buffer owns is released.
HeapAfterCleanup(buf, heap) ==
  IF buf.m_data.kind = "heap" /\ ~buf.m_is_data_external
    THEN heap \ {buf.m_data.block} ELSE heap

\* declare( type, num_elems )
Declare(type, num_elems) ==
  /\ BufAlive
  /\ b_buffer' = IF num_elems >= 0
                   THEN [b_buffer EXCEPT !.m_type = type,
                                         !.num_elems = num_elems]
                   ELSE b_buffer
  /\ BufCall("declare", num_elems, "returned")
  /\ UNCHANGED <<bufFrame, b_heap>>

\* allocate(): the old data is released and the declared bytes allocated,
\* unless the data is external.
Allocate ==
  /\ BufAlive
  /\ b_buffer.num_elems >= 0
  /\ IF b_buffer.m_is_data_external
       THEN UNCHANGED <<b_buffer, b_heap>>
       ELSE \E k \in HeapBlocks \ HeapAfterCleanup(b_buffer, b_heap) :
              /\ b_buffer' = [b_buffer EXCEPT !.m_data = HeapPtr(k)]
              /\ b_heap' = HeapAfterCleanup(b_buffer, b_heap) \cup {k}
  /\ BufCall("allocate", b_buffer.num_elems, "returned")
  /\ UNCHANGED bufFrame

\* setExternalData( external_data ) with a non-null pointer.
SetExternalData ==
  /\ BufAlive
  /\ b_buffer' = [b_buffer EXCEPT !.m_data = ExternalPtr,
                                  !.m_is_data_external = TRUE]
  /\ BufCall("setExternalData", b_buffer.num_elems, "returned")
  /\ UNCHANGED <<bufFrame, b_heap>>

\* reallocate( num_elems ), the assertions compiled out: the schema gets the
\* new element count; new bytes are allocated (a request that does not fit
\* in memory leaves by std::bad_alloc); the old bytes are copied (a copy
\* from the null pointer stops the process), the old data is cleaned up and
\* the buffer holds the new block.
Reallocate(num_elems) ==
  /\ BufAlive
  /\ LET old_size == TotalBytes(b_buffer.m_type, b_buffer.num_elems)
         resized == [b_buffer EXCEPT !.num_elems = num_elems]
         new_size == TotalBytes(resized.m_type, resized.num_elems)
         copied == Min2(old_size, new_size)
     IN  IF new_size > MaxBlockBytes
           THEN /\ b_buffer' = resized
                /\ b_heap' = b_heap
                /\ BufCall("reallocate", num_elems, "threw")
           ELSE \E k \in HeapBlocks \ b_heap :
                  IF b_buffer.m_data = NullPtr /\ copied > 0
                    THEN /\ b_buffer' = resized
                         /\ b_heap' = b_heap \cup {k}
                         /\ BufCall("reallocate", num_elems, "aborted")
                    ELSE /\ b_buffer' = [resized EXCEPT !.m_data = HeapPtr(k)]
                         /\ b_heap' = HeapAfterCleanup(b_buffer, b_heap \cup {k})
                         /\ BufCall("reallocate", num_elems, "returned")
  /\ UNCHANGED bufFrame

\* The assertion a call of op with num_elems fails in a debug build, if any.
FailsAssertion(op, num_elems) ==
  CASE op = "declare" -> num_elems < 0
    [] op = "allocate" ->
         \/ b_buffer.m_is_data_external
         \/ TotalBytes(b_buffer.m_type, b_buffer.num_elems) = 0
    [] op = "reallocate" ->
         \/ num_elems < 0
         \/ b_buffer.m_is_data_external
         \/ b_buffer.m_data = NullPtr
         \/ TotalBytes(b_buffer.m_type, num_elems) = 0
    [] OTHER -> FALSE

\* A debug build: the failing assertion stops the process inside the call.
BufAssertAbort(op, num_elems) ==
  /\ BufAlive
  /\ FailsAssertion(op, num_elems)
  /\ BufCall(op, num_elems, "aborted")
  /\ UNCHANGED <<bufFrame, b_buffer, b_heap>>

NextBuf ==
  \/ \E type \in TypeIDs \ {"EMPTY_ID"}, n \in NumElemsPool : Declare(type, n)
  \/ Allocate
  \/ SetExternalData
  \/ \E n \in NumElemsPool : Reallocate(n)
  \/ \E op \in {"declare", "allocate", "reallocate"}, n \in NumElemsPool :
       BufAssertAbort(op, n)

\* The BVH of the process plays no part here: it is one fixed, unbuilt BVH.
InitSidre ==
  /\ Construct(<< <<0, 0, 4, 4>> >>)
  /\ Constructed

SpecBuf == InitSidre /\ [][NextBuf]_vars

\* ------------------------------------------------------- sidre::DataStore
\* The buffer table of a DataStore and the calls that create, look up and
\* destroy buffers.  A caller passes destroyBuffer a pointer to a live
\* buffer of this DataStore or the null pointer.
storeFrame == <<bvhVars, defaultAllocatorID, aborted, ret, histVars, parVars,
                concVars, combVars, bufVars, fillVars, allocVars, lifeVars,
                meshVars, idxVars>>

LiveBuffers == { o \in ObjIds : s_index[o] # NoIndex }

\* hasBuffer( idx ): idx is inside the table and its slot is not null.
HasBuffer(table, idx) ==
  idx >= 0 /\ idx < Len0(table) /\ table[idx] # NullObj

\* getBuffer( idx )
GetBufferResult(table, idx) ==
  IF ~HasBuffer(table, idx) THEN NullObj ELSE table[idx]

\* Mutant of TakeIndex: the freed index is read from the stack, not popped.
MutTakeIndex_NoPop(table, free) ==
  IF free = << >>
    THEN [newIndex |-> Len0(table),
          table |-> (Len0(table) :> NullObj) @@ table,
          free |-> free, reused |-> FALSE]
    ELSE [newIndex |-> free[Len(free)],
          table |-> table,
          free |-> free, reused |-> TRUE]

\* The index createBuffer gives the new buffer, and table and stack after
\* it has been taken.
TakeIndex(table, free) ==
  IF free = << >>
    THEN [newIndex |-> Len0(table),
          table |-> (Len0(table) :> NullObj) @@ table,
          free |-> free, reused |-> FALSE]
    ELSE [newIndex |-> free[Len(free)],
          table |-> table,
          free |-> SubSeq(free, 1, Len(free) - 1), reused |-> TRUE]

\* createBuffer(): obj is what new(std::nothrow) returns, the address of the
\* new buffer or the null pointer.
CreateBuffer(obj) ==
  /\ obj \in (ObjIds \ LiveBuffers) \cup {NullObj}
  /\ m_free_buffer_ids # << >> \/ Len0(m_data_buffers) < MaxBuffers
  /\ LET t == TakeIndex(m_data_buffers, m_free_buffer_ids)
     IN  /\ m_data_buffers' = [t.table EXCEPT ![t.newIndex] = obj]
         /\ m_free_buffer_ids' = t.free
         /\ s_index' = IF obj = NullObj THEN s_index
                       ELSE [s_index EXCEPT ![obj] = t.newIndex]
         /\ s_ret' = [op |-> "createBuffer", obj |-> obj,
                      idx |-> t.newIndex, reused |-> t.reused]
  /\ UNCHANGED storeFrame

\* Table, stack and live buffers after destroyBuffer( buff ).
AfterDestroy(st, buff) ==
  IF buff = NullObj THEN st
  ELSE LET idx == st.index[buff]
       IN  [table |-> [st.table EXCEPT ![idx] = NullObj],
            free  |-> Append(st.free, idx),
            index |-> [st.index EXCEPT ![buff] = NoIndex]]

StoreState ==
  [table |-> m_data_buffers, free |-> m_free_buffer_ids, index |-> s_index]
SetStore(st) ==
  /\ m_data_buffers' = st.table
  /\ m_free_buffer_ids' = st.free
  /\ s_index' = st.index

\* destroyBuffer( DataBuffer * buff )
DestroyBufferPtr(buff) ==
  /\ buff \in LiveBuffers \cup {NullObj}
  /\ SetStore(AfterDestroy(StoreState, buff))
  /\ s_ret' = [NoStoreRet EXCEPT !.op = "destroyBuffer", !.obj = buff]
  /\ UNCHANGED storeFrame

\* destroyBuffer( IndexType idx )
DestroyBufferIdx(idx) ==
  /\ SetStore(AfterDestroy(StoreState, GetBufferResult(m_data_buffers, idx)))
  /\ s_ret' = [NoStoreRet EXCEPT !.op = "destroyBuffer", !.idx = idx]
  /\ UNCHANGED storeFrame

\* getBuffer( idx )
GetBuffer(idx) ==
  /\ s_ret' = [NoStoreRet EXCEPT !.op = "getBuffer", !.idx = idx,
                 !.obj = GetBufferResult(m_data_buffers, idx)]
  /\ UNCHANGED <<storeFrame, m_data_buffers, m_free_buffer_ids, s_index>>

\* destroyAllBuffers(): the valid indices in rising order, each destroyed.
RECURSIVE DestroyFrom(_, _)
DestroyFrom(st, idx) ==
  IF idx >= Len0(st.table) THEN st
  ELSE DestroyFrom(AfterDestroy(st, GetBufferResult(st.table, idx)), idx + 1)

DestroyAllBuffers ==
  /\ LiveBuffers # {}
  /\ SetStore(DestroyFrom(StoreState, 0))
  /\ s_ret' = [NoStoreRet EXCEPT !.op = "destroyAllBuffers"]
  /\ UNCHANGED storeFrame

NextStore ==
  \/ \E obj \in ObjIds \cup {NullObj} : CreateBuffer(obj)
  \/ \E buff \in ObjIds \cup {NullObj} : DestroyBufferPtr(buff)
  \/ \E idx \in NoIndex .. MaxBuffers : DestroyBufferIdx(idx)
  \/ \E idx \in NoIndex .. MaxBuffers : GetBuffer(idx)
  \/ DestroyAllBuffers

SpecStore == InitSidre /\ [][NextStore]_vars

\* ----------------------------------------------- BVH: lifetime of the arrays
\* The heap blocks one BVH object allocates and frees over its life: the
\* padded box array and the radix tree inside build(), and the two arrays of
\* the flattened tree that m_bvh owns.
lifeFrame == <<bvhVars, defaultAllocatorID, aborted, ret, histVars, parVars,
               concVars, combVars, bufVars, storeVars, fillVars, allocVars,
               meshVars, idxVars>>

ArrayBlocks(arrays) == {arrays.inner_nodes, arrays.leaf_nodes} \ {0}

\* Mutant of BvhDataFreeOld: the old arrays are left allocated.
MutBvhDataFreeOld_KeepsOld(heap, arrays) == heap

\* BVHData::allocate, first half: the arrays held so far are freed.
BvhDataFreeOld(heap, arrays) == heap \ ArrayBlocks(arrays)

\* BVHData::allocate: the old arrays are freed, then the two new arrays are
\* allocated in blocks inner and leaf, which are free at that moment.
BvhDataAllocate(heap, arrays, inner, leaf) ==
  [heap |-> BvhDataFreeOld(heap, arrays) \cup {inner, leaf},
   arrays |-> [inner_nodes |-> inner, leaf_nodes |-> leaf]]

\* BVHData::deallocate: both arrays are freed and the pointers nulled.
BvhDataDeallocate(heap, arrays) ==
  [heap |-> heap \ ArrayBlocks(arrays), arrays |-> NoArrays]

\* build(): boxesptr is allocated in block pad when there is a single item,
\* the radix tree in block radix; m_bvh.allocate installs the new arrays;
\* the radix tree and boxesptr are freed again before build() returns.
LifeBuild(pad, radix, inner, leaf) ==
  /\ l_alive
  /\ m_numItems >= 1
  /\ LET padded == IF m_numItems = 1 THEN {pad} ELSE {}
         atRadix == l_heap \cup padded
         atAllocate == atRadix \cup {radix}
         installed == BvhDataAllocate(atAllocate, l_arrays, inner, leaf)
     IN  /\ pad \notin l_heap
         /\ radix \notin atRadix
         /\ inner # leaf
         /\ {inner, leaf} \cap BvhDataFreeOld(atAllocate, l_arrays) = {}
         /\ l_heap' = (installed.heap \ {radix}) \ padded
         /\ l_arrays' = installed.arrays
  /\ l_builds' = Min2(l_builds + 1, 3)
  /\ UNCHANGED <<lifeFrame, l_alive>>

\* ~BVH(): m_bvh.deallocate().
LifeDestroy ==
  /\ l_alive
  /\ LET freed == BvhDataDeallocate(l_heap, l_arrays)
     IN  /\ l_heap' = freed.heap
         /\ l_arrays' = freed.arrays
  /\ l_alive' = FALSE
  /\ UNCHANGED <<lifeFrame, l_builds>>

NextLife ==
  \/ \E pad, radix, inner, leaf \in LifeBlocks : LifeBuild(pad, radix, inner, leaf)
  \/ LifeDestroy

SpecLife == Init /\ [][NextLife]_vars

\* ------------------------------------------------------------------ IAMesh
\* The indexed-array mesh of triangles (TDIM = 2): a set of vertices, a set
\* of elements, and the relations element->vertices (ev_rel), vertex->one
\* element (ve_rel) and element->neighbours across its faces (ee_rel).
\* Entries of a set are valid or removed; a removed row of a relation is empty.
meshFrame == <<bvhVars, defaultAllocatorID, aborted, ret, histVars, parVars,
               concVars, combVars, bufVars, storeVars, fillVars, allocVars,
               lifeVars, idxVars>>

VERTS_PER_ELEM == 3
Sides == 0 .. VERTS_PER_ELEM - 1

\* set.isValidEntry( idx )
IsValidEntry(set, idx) == idx \in DOMAIN set /\ set[idx]

\* is_subset( v, iterable ): v is one of the items.
is_subset(v, iterable) == \E i \in DOMAIN iterable : iterable[i] = v

\* The smallest member of a nonempty set of positions.
FirstOf(S) == CHOOSE i \in S : \A j \in S : i <= j

\* getElementFace followed by the sort: the vertices of face side_i of an
\* element with vertices ev, as a set.
ElementFace(ev, side_i) ==
  { ev[(side_i + i) % VERTS_PER_ELEM] : i \in 0 .. VERTS_PER_ELEM - 2 }

\* The constructor's loop over ElemNbrFinder: position k is face k % 3 of
\* element k / 3; map holds the faces seen and not yet matched, vec is
\* element_element_vec.  A face found in the map is matched and erased.
RECURSIVE FindNeighbors(_, _, _, _)
FindNeighbors(tris, k, map, vec) ==
  IF k = Len0(tris) * VERTS_PER_ELEM THEN vec
  ELSE LET element_i == k \div VERTS_PER_ELEM
           side_i == k % VERTS_PER_ELEM
           vlist == ElementFace(tris[element_i], side_i)
           hits == { m \in map : m.vlist = vlist }
       IN  IF hits = {}
             THEN FindNeighbors(tris, k + 1,
                    map \cup {[vlist |-> vlist, elem |-> element_i,
                               side |-> side_i]},
                    vec)
             ELSE LET orig == CHOOSE m \in hits : TRUE
                      idx0 == element_i * VERTS_PER_ELEM + side_i
                      idx1 == orig.elem * VERTS_PER_ELEM + orig.side
                  IN  FindNeighbors(tris, k + 1, map \ {orig},
                        [vec EXCEPT ![idx0] = orig.elem, ![idx1] = element_i])

\* IAMesh( points, tri ): numVerts vertices and the triangles tris.  The
\* vertex->element entry of a vertex is the last element that has it.
IAMeshFrom(numVerts, tris) ==
  LET n == Len0(tris)
      vec == FindNeighbors(tris, 0, {},
               Arr(n * VERTS_PER_ELEM, LAMBDA k : INVALID_INDEX))
      holders(v) == { z \in 0 .. n - 1 : is_subset(v, tris[z]) }
  IN  [vertex_set |-> Arr(numVerts, LAMBDA v : TRUE),
       element_set |-> Arr(n, LAMBDA e : TRUE),
       ev_rel |-> tris,
       ve_rel |-> Arr(numVerts, LAMBDA v :
                    IF holders(v) = {} THEN INVALID_INDEX
                    ELSE CHOOSE z \in holders(v) : \A y \in holders(v) : y <= z),
       ee_rel |-> Arr(n, LAMBDA e :
                    Arr(VERTS_PER_ELEM, LAMBDA j : vec[e * VERTS_PER_ELEM + j]))]

\* removeElement, first loop: the element vertex_i is handed to when the one
\* it points to is removed: the first valid neighbour of element_idx that
\* has vertex_i, or the invalid entry.
NewElemFor(mesh, element_idx, vertex_i) ==
  LET nbrs == mesh.ee_rel[element_idx]
      good == { j \in DOMAIN nbrs :
                  /\ IsValidEntry(mesh.element_set, nbrs[j])
                  /\ is_subset(vertex_i, mesh.ev_rel[nbrs[j]]) }
  IN  IF good = {} THEN INVALID_INDEX ELSE nbrs[FirstOf(good)]

\* removeElement, last loop: in each valid neighbour of element_idx, the
\* first adjacency entry that points to element_idx is made invalid.
RECURSIVE EraseAdjacency(_, _, _, _)
EraseAdjacency(ee, element_set, element_idx, j) ==
  IF j = Len0(ee[element_idx]) THEN ee
  ELSE LET nbr == ee[element_idx][j]
           hits == IF IsValidEntry(element_set, nbr)
                     THEN { i \in DOMAIN ee[nbr] : ee[nbr][i] = element_idx }
                     ELSE {}
           next == IF hits = {} THEN ee
                   ELSE [ee EXCEPT ![nbr][FirstOf(hits)] = INVALID_INDEX]
       IN  EraseAdjacency(next, element_set, element_idx, j + 1)

\* removeElement( element_idx ): the mesh after the call.
RemoveElementFrom(mesh, element_idx) ==
  IF ~IsValidEntry(mesh.element_set, element_idx) THEN mesh
  ELSE LET ve == [v \in DOMAIN mesh.ve_rel |->
                    IF /\ is_subset(v, mesh.ev_rel[element_idx])
                       /\ mesh.ve_rel[v] = element_idx
                      THEN NewElemFor(mesh, element_idx, v)
                      ELSE mesh.ve_rel[v]]
           es == [mesh.element_set EXCEPT ![element_idx] = FALSE]
           ee == EraseAdjacency(mesh.ee_rel, es, element_idx, 0)
       IN  [mesh EXCEPT !.ve_rel = ve,
                        !.element_set = es,
                        !.ev_rel = [@ EXCEPT ![element_idx] = EmptyArr],
                        !.ee_rel = [ee EXCEPT ![element_idx] = EmptyArr]]

\* getElementsWithVertex: the walk from the element of ve_rel over valid
\* neighbours that have the vertex; ret is the list found so far, queue the
\* elements whose neighbours are still to be looked at (taken from the back).
RECURSIVE VisitNeighbors(_, _, _, _, _, _)
VisitNeighbors(mesh, vertex_idx, element_i, j, found, queue) ==
  IF j = Len0(mesh.ee_rel[element_i]) THEN [found |-> found, queue |-> queue]
  ELSE LET nbr == mesh.ee_rel[element_i][j]
       IN  IF /\ IsValidEntry(mesh.element_set, nbr)
              /\ ~is_subset(nbr, found)
              /\ is_subset(vertex_idx, mesh.ev_rel[nbr])
             THEN VisitNeighbors(mesh, vertex_idx, element_i, j + 1,
                                 Append(found, nbr), Append(queue, nbr))
             ELSE VisitNeighbors(mesh, vertex_idx, element_i, j + 1,
                                 found, queue)

RECURSIVE TraverseStar(_, _, _, _)
TraverseStar(mesh, vertex_idx, found, queue) ==
  IF queue = << >> THEN found
  ELSE LET element_i == queue[Len(queue)]
           r == VisitNeighbors(mesh, vertex_idx, element_i, 0, found,
                               SubSeq(queue, 1, Len(queue) - 1))
       IN  TraverseStar(mesh, vertex_idx, r.found, r.queue)

getElementsWithVertex(mesh, vertex_idx) ==
  IF mesh.ve_rel[vertex_idx] = INVALID_INDEX THEN << >>
  ELSE TraverseStar(mesh, vertex_idx, << mesh.ve_rel[vertex_idx] >>,
                    << mesh.ve_rel[vertex_idx] >>)

RECURSIVE RemoveElements(_, _, _)
RemoveElements(mesh, elems, k) ==
  IF k > Len(elems) THEN mesh
  ELSE RemoveElements(RemoveElementFrom(mesh, elems[k]), elems, k + 1)

\* removeVertex( vertex_idx ): the mesh after the call.
RemoveVertexFrom(mesh, vertex_idx) ==
  IF ~IsValidEntry(mesh.vertex_set, vertex_idx) THEN mesh
  ELSE LET m == RemoveElements(mesh, getElementsWithVertex(mesh, vertex_idx), 1)
       IN  [m EXCEPT !.vertex_set = [@ EXCEPT ![vertex_idx] = FALSE],
                     !.ve_rel = [@ EXCEPT ![vertex_idx] = INVALID_INDEX]]

\* isValid(): the sizes of sets and relations agree, a valid element has no
\* invalid vertex, and a valid vertex->element entry is of a valid vertex.
IsValidMesh(mesh) ==
  /\ DOMAIN mesh.vertex_set = DOMAIN mesh.ve_rel
  /\ DOMAIN mesh.element_set = DOMAIN mesh.ev_rel
  /\ DOMAIN mesh.element_set = DOMAIN mesh.ee_rel
  /\ \A pos \in DOMAIN mesh.element_set :
       mesh.element_set[pos] =>
         \A rpos \in DOMAIN mesh.ev_rel[pos] :
           mesh.ev_rel[pos][rpos] # INVALID_INDEX
  /\ \A pos \in DOMAIN mesh.vertex_set :
       mesh.ve_rel[pos] # INVALID_INDEX => mesh.vertex_set[pos]

\* The meshes the constructor is given: a triangle, two triangles sharing an
\* edge, two sharing only a vertex, a strip of three, a fan of four around
\* vertex 0.
Tri(a, b, c) == (0 :> a) @@ (1 :> b) @@ (2 :> c)
TriList(ts) == Arr(Len(ts), LAMBDA i : ts[i + 1])
MeshInputs ==
  { [numVerts |-> 3, tris |-> TriList(<< Tri(0, 1, 2) >>)],
    [numVerts |-> 4, tris |-> TriList(<< Tri(0, 1, 2), Tri(1, 3, 2) >>)],
    [numVerts |-> 5, tris |-> TriList(<< Tri(0, 1, 2), Tri(2, 3, 4) >>)],
    [numVerts |-> 5, tris |-> TriList(<< Tri(0, 1, 2), Tri(1, 3, 2),
                                         Tri(2, 3, 4) >>)],
    [numVerts |-> 5, tris |-> TriList(<< Tri(0, 1, 2), Tri(0, 2, 3),
                                         Tri(0, 3, 4), Tri(0, 4, 1) >>)] }

\* mesh = IAMesh( points, tri )
ConstructMesh(in) ==
  /\ ia_ret.op = "none"
  /\ ia_mesh' = IAMeshFrom(in.numVerts, in.tris)
  /\ ia_ret' = [op |-> "construct", idx |-> INVALID_INDEX, before |-> ia_mesh]
  /\ UNCHANGED meshFrame

RemoveElement(element_idx) ==
  /\ ia_ret.op # "none"
  /\ element_idx \in DOMAIN ia_mesh.element_set
  /\ ia_mesh' = RemoveElementFrom(ia_mesh, element_idx)
  /\ ia_ret' = [op |-> "removeElement", idx |-> element_idx,
                before |-> ia_mesh]
  /\ UNCHANGED meshFrame

RemoveVertex(vertex_idx) ==
  /\ ia_ret.op # "none"
  /\ vertex_idx \in DOMAIN ia_mesh.vertex_set
  /\ ia_mesh' = RemoveVertexFrom(ia_mesh, vertex_idx)
  /\ ia_ret' = [op |-> "removeVertex", idx |-> vertex_idx,
                before |-> ia_mesh]
  /\ UNCHANGED meshFrame

MeshIds == 0 .. 4
NextMesh ==
  \/ \E in \in MeshInputs : ConstructMesh(in)
  \/ \E e \in MeshIds : RemoveElement(e)
  \/ \E v \in MeshIds : RemoveVertex(v)

SpecMesh == InitSidre /\ [][NextMesh]_vars

\* ------------------------------------------------------ StructuredIndexing
\* The extents of a structured mesh in 1, 2 or 3 dimensions and the
\* conversions between a flat index and a logical (i, j, k) index.
idxFrame == <<bvhVars, defaultAllocatorID, aborted, ret, histVars, parVars,
              concVars, combVars, bufVars, storeVars, fillVars, allocVars,
              lifeVars, meshVars>>

MaxExtent == 3
DimensionsPool ==
  UNION { [0 .. ndims - 1 -> 1 .. MaxExtent] : ndims \in 1 .. 3 }

\* size(): the product of the extents.
RECURSIVE SizeUpTo(_, _)
SizeUpTo(dims, i) == IF i = 0 THEN 1 ELSE SizeUpTo(dims, i - 1) * dims[i - 1]
Size(dims) == SizeUpTo(dims, Len0(dims))

\* Mutant of IndexToLogicalIndex: in 3D the row is not reduced to its page.
MutIndexToLogicalIndex_NoPageModulo(dims, index) ==
  IF Len0(dims) = 1 THEN (0 :> index)
  ELSE IF Len0(dims) = 2
    THEN (0 :> index % dims[0]) @@ (1 :> index \div dims[0])
    ELSE LET nx == dims[0]
             nxy == nx * dims[1]
         IN  (0 :> index % nx) @@ (1 :> index \div nx)
               @@ (2 :> index \div nxy)

\* IndexToLogicalIndex( index ), the overload of the number of dimensions.
IndexToLogicalIndex(dims, index) ==
  IF Len0(dims) = 1 THEN (0 :> index)
  ELSE IF Len0(dims) = 2
    THEN (0 :> index % dims[0]) @@ (1 :> index \div dims[0])
    ELSE LET nx == dims[0]
             nxy == nx * dims[1]
         IN  (0 :> index % nx) @@ (1 :> (index % nxy) \div nx)
               @@ (2 :> index \div nxy)

\* LogicalIndexToIndex( logical ), the overload of the number of dimensions.
LogicalIndexToIndex(dims, logical) ==
  IF Len0(dims) = 1 THEN logical[0]
  ELSE IF Len0(dims) = 2
    THEN logical[1] * dims[0] + logical[0]
    ELSE (logical[2] * dims[1] * dims[0]) + (logical[1] * dims[0]) + logical[0]

\* StructuredIndexing( dims )
SetDimensions(dims) ==
  /\ m_dimensions = EmptyArr
  /\ m_dimensions' = dims
  /\ UNCHANGED <<idxFrame, q_index, q_logical, q_back>>

\* The caller converts a flat index of the mesh to a logical index.
ToLogical(index) ==
  /\ m_dimensions # EmptyArr
  /\ index \in 0 .. Size(m_dimensions) - 1
  /\ q_index' = index
  /\ q_logical' = IndexToLogicalIndex(m_dimensions, index)
  /\ q_back' = 0 - 1
  /\ UNCHANGED <<idxFrame, m_dimensions>>

\* The caller converts the logical index it got back to a flat index.
ToIndex ==
  /\ q_logical # EmptyArr
  /\ q_back = 0 - 1
  /\ q_back' = LogicalIndexToIndex(m_dimensions, q_logical)
  /\ UNCHANGED <<idxFrame, m_dimensions, q_index, q_logical>>

NextIdx ==
  \/ \E dims \in DimensionsPool : SetDimensions(dims)
  \/ \E index \in 0 .. MaxExtent * MaxExtent * MaxExtent - 1 : ToLogical(index)
  \/ ToIndex

SpecIdx == InitSidre /\ [][NextIdx]_vars

\* ================================================================ claims
\* What the caller reads for query i: candidates[offsets[i] .. offsets[i]+counts[i]).
CandidateRange(r, i) == r.offsets[i] .. r.offsets[i] + r.counts[i] - 1
CandidateSet(r, i) == { r.candidates[k] : k \in CandidateRange(r, i) }
Queries(r) == 0 .. r.numPts - 1
Items == 0 .. m_numItems - 1

\* Input box j expanded by the scale factor of the build that made the tree.
ExpandedBox(j) == ScaleBox(BoxAt(m_boxes, j), h_builtScale)
PointInExpanded(p, j) == PointInBox(p, ExpandedBox(j))

\* C1: after build(), for every query point of find() and every input box j,
\* if the point lies inside box j expanded by the scale factor then j is among
\* the candidates stored for that query (no false negatives).
C1_FindComplete ==
  ret.op = "find" =>
    \A i \in Queries(ret) : \A j \in Items :
      PointInExpanded(ret.pts[i], j) => j \in CandidateSet(ret, i)

\* C1 witness: a find() whose query point lies in two expanded boxes and got both.
C1_Witness ==
  /\ ret.op = "find"
  /\ \E i \in Queries(ret) : \E j1, j2 \in Items :
       /\ j1 # j2
       /\ PointInExpanded(ret.pts[i], j1) /\ PointInExpanded(ret.pts[i], j2)
       /\ {j1, j2} \subseteq CandidateSet(ret, i)

\* C2: every index stored in a query's candidate range is the index of an
\* input box whose expanded box contains the query point, and a query point in
\* no expanded box has count 0.
C2_FindSound ==
  ret.op = "find" =>
    \A i \in Queries(ret) :
      /\ \A k \in CandidateRange(ret, i) :
           /\ k \in DOMAIN ret.candidates
           /\ ret.candidates[k] \in Items
           /\ PointInExpanded(ret.pts[i], ret.candidates[k])
      /\ (\A j \in Items : ~PointInExpanded(ret.pts[i], j)) => ret.counts[i] = 0

\* C2 witness: one find() with a query that has a candidate and a query in no box.
C2_Witness ==
  /\ ret.op = "find"
  /\ \E i, i2 \in Queries(ret) :
       /\ ret.counts[i] >= 1
       /\ \A j \in Items : ~PointInExpanded(ret.pts[i2], j)
       /\ ret.counts[i2] = 0

\* C3: on return from find(), offsets is the exclusive prefix sum of counts
\* and the candidates array has as many slots as the counts add up to.
C3_OffsetsPrefixSum ==
  ret.op = "find" =>
    /\ \A i \in Queries(ret) :
         ret.offsets[i] = IF i = 0 THEN 0
                          ELSE ret.offsets[i - 1] + ret.counts[i - 1]
    /\ Len0(ret.candidates) =
         IF ret.numPts = 0 THEN 0
         ELSE ret.offsets[ret.numPts - 1] + ret.counts[ret.numPts - 1]

\* C3 witness: two queries with candidates each, the second starting after the first.
C3_Witness ==
  /\ ret.op = "find"
  /\ ret.numPts = 2
  /\ ret.counts[0] = 2 /\ ret.counts[1] >= 1
  /\ ret.offsets[1] = 2
  /\ Len0(ret.candidates) >= 3

\* Strictly inside input box j itself (no expansion).
PointInsideBox(p, j) == PointInBox(p, ScaleBox(BoxAt(m_boxes, j), ScaleDen))

\* C6: with numItems = 1, build() returns BVH_BUILD_OK and find() returns
\* index 0 for every query point inside the single box.
C6_SingleItem ==
  m_numItems = 1 =>
    /\ ret.op # "build_aborted"
    /\ ret.op = "build" => ret.status = BVH_BUILD_OK
    /\ ret.op = "find" =>
         \A i \in Queries(ret) :
           PointInsideBox(ret.pts[i], 0) => 0 \in CandidateSet(ret, i)

\* C6 witness: a single-box tree, a query inside the box, candidate 0 returned.
C6_Witness ==
  /\ m_numItems = 1
  /\ ret.op = "find"
  /\ \E i \in Queries(ret) :
       PointInsideBox(ret.pts[i], 0) /\ CandidateSet(ret, i) = {0}

C8_ZeroItemsFails ==
  (m_numItems = 0 /\ ret.op \in {"build", "build_aborted"}) =>
    (ret.op = "build" /\ ret.status = BVH_BUILD_FAILED)

\* The smallest and the largest element of a finite set of integers.
SetMin(S) == CHOOSE m \in S : \A x \in S : m <= x
SetMax(S) == CHOOSE m \in S : \A x \in S : m >= x

\* C9 (as claimed): getBounds() returns, per axis, the least min corner and the
\* greatest max corner of the caller's boxes 0 .. numItems-1.
C9_BoundsOfInput ==
  ret.op = "getBounds" =>
    \A d \in Dims :
      /\ ret.bounds.lo[d] = SetMin({BoxAt(m_boxes, j).lo[d] : j \in Items})
      /\ ret.bounds.hi[d] = SetMax({BoxAt(m_boxes, j).hi[d] : j \in Items})

\* What queries see of a tree: per query point, the count and the candidate set.
QueryView(bvh) ==
  [p \in PointPool |->
     LET r == FindResult(bvh, 1, 0 :> p)
     IN  [count |-> r.counts[0], candidates |-> CandidateSet(r, 0)]]

SequentialRun(numPts, pts) ==
  FindResult(BuildBvh(EmptyBvh, m_boxes, m_numItems, m_scaleFactor),
             numPts, pts)

\* C5: for a fixed box array, build() followed by find() run work item by
\* work item, in any order inside each phase, hands back the counts, the
\* offsets and the per-query candidate sets of the sequential loop, and
\* stays inside the candidates array.
C5_OrderIndependent ==
  (p_pc = "done") =>
    LET seq == SequentialRun(ret.numPts, ret.pts)
    IN  /\ ret.counts = seq.counts
        /\ ret.offsets = seq.offsets
        /\ Len0(ret.candidates) = Len0(seq.candidates)
        /\ ~ret.oob
        /\ \A i \in Queries(ret) : CandidateSet(ret, i) = CandidateSet(seq, i)

\* C5 witness: a finished run of three boxes and two queries that both have
\* candidates, so that the order of the work items could matter.
C5_Witness ==
  /\ p_pc = "done"
  /\ m_numItems = 3
  /\ ret.numPts = 2
  /\ \A i \in Queries(ret) : ret.counts[i] >= 1
  /\ ret.pts[0] # ret.pts[1]

\* What call t hands back, and what find() alone hands back for its batch.
ConcOutput(t) ==
  [numPts |-> c_find[t].numPts, counts |-> c_find[t].counts,
   offsets |-> c_find[t].offsets, candidates |-> c_find[t].buf.candidates]
ConcReturned(t) == c_pc[t] = "done"

\* Call t returned what it would have returned had it run alone.
ConcAsAlone(t) ==
  LET out == ConcOutput(t)
      alone == FindResult(m_bvh, c_find[t].numPts, c_find[t].pts)
  IN  /\ out.counts = alone.counts
      /\ out.offsets = alone.offsets
      /\ Len0(out.candidates) = Len0(alone.candidates)
      /\ ~c_find[t].buf.oob
      /\ \A i \in Queries(out) : CandidateSet(out, i) = CandidateSet(alone, i)

Unbuilt(bvh) ==
  /\ ~bvh.allocated
  /\ bvh.inner_nodes = EmptyArr
  /\ bvh.leaf_nodes = EmptyArr

\* C11 (as claimed): after a build() that failed part-way, the BVH holds
\* the tree and the bounds it held when build() was entered, or no tree.
C11_FailedBuildAtomic ==
  (ret.op = "build_threw") => (m_bvh = h_prevBvh \/ Unbuilt(m_bvh))

\* The number of boxes the tree of the BVH was built over.
NumBoxes == IF m_numItems = 1 THEN 2 ELSE m_numItems

\* The child references of the flattened tree, as (node, side) pairs, and
\* the reference stored at one of them.
ChildSlots(bvh) == (DOMAIN bvh.inner_nodes) \X {"left", "right"}
ChildRef(bvh, slot) ==
  IF slot[2] = "left" THEN bvh.inner_nodes[slot[1]].left_child
  ELSE bvh.inner_nodes[slot[1]].right_child
TimesReferenced(bvh, c) ==
  Cardinality({slot \in ChildSlots(bvh) : ChildRef(bvh, slot) = c})

\* Everything below reference c, at most fuel levels down.
RECURSIVE Descendants(_, _, _)
Descendants(bvh, c, fuel) ==
  IF c < 0 \/ fuel = 0 \/ c \notin DOMAIN bvh.inner_nodes THEN {c}
  ELSE {c} \cup Descendants(bvh, bvh.inner_nodes[c].left_child, fuel - 1)
           \cup Descendants(bvh, bvh.inner_nodes[c].right_child, fuel - 1)

WellFormedTree(bvh, numBoxes) ==
  LET leafRefs  == { -(k + 1) : k \in 0 .. numBoxes - 1 }
      innerRefs == 0 .. numBoxes - 2
  IN  /\ DOMAIN bvh.leaf_nodes = 0 .. numBoxes - 1
      /\ DOMAIN bvh.inner_nodes = innerRefs
      /\ \A slot \in ChildSlots(bvh) :
           ChildRef(bvh, slot) \in leafRefs \cup (innerRefs \ {0})
      /\ \A c \in leafRefs \cup (innerRefs \ {0}) : TimesReferenced(bvh, c) = 1
      /\ Descendants(bvh, 0, numBoxes) = leafRefs \cup innerRefs
      /\ { bvh.leaf_nodes[k] : k \in 0 .. numBoxes - 1 } = 0 .. numBoxes - 1

\* C12: after build() over numBoxes > 1 boxes (two when one item was padded)
\* the flattened tree has numBoxes leaves and numBoxes - 1 internal nodes,
\* every leaf slot and every internal node but the root is referenced by
\* exactly one child reference, the root by none, everything hangs below
\* the root, and the leaf array is a permutation of 0 .. numBoxes-1.
C12_TreeWellFormed == Built => WellFormedTree(m_bvh, NumBoxes)

\* C12 witness: a tree over three boxes, two of them the same box (equal
\* Morton codes), so that one internal node has an internal child.
C12_Witness ==
  /\ Built
  /\ m_numItems = 3
  /\ BoxAt(m_boxes, 0) = BoxAt(m_boxes, 1)
  /\ BoxAt(m_boxes, 0) # BoxAt(m_boxes, 2)
  /\ \E i \in DOMAIN m_bvh.inner_nodes : m_bvh.inner_nodes[i].left_child > 0
                                       \/ m_bvh.inner_nodes[i].right_child > 0

\* The leaf slots below reference c that the predicates admit for point p:
\* every step from an ancestor to its child passed the test of that side.
RECURSIVE AdmittedLeaves(_, _, _)
AdmittedLeaves(bvh, p, c) ==
  IF c < 0 THEN { -c - 1 }
  ELSE LET node == bvh.inner_nodes[c]
       IN  (IF PointInBox(p, node.left_box)
              THEN AdmittedLeaves(bvh, p, node.left_child) ELSE {})
           \cup
           (IF PointInBox(p, node.right_box)
              THEN AdmittedLeaves(bvh, p, node.right_child) ELSE {})

NoRepeats(seq) ==
  \A a, b \in 1 .. Len(seq) : a # b => seq[a] # seq[b]

\* C13: one traversal from the root calls the leaf action once for each leaf
\* whose ancestor-to-child steps all passed the left/right test, with the
\* leaf's original box index, for no other leaf, has no node at hand twice,
\* and ends with an empty stack.
C13_TraversalExact ==
  Built =>
    \A p \in PointPool :
      LET t == TraverseRoot(m_bvh.inner_nodes, p)
          admitted == AdmittedLeaves(m_bvh, p, 0)
      IN  /\ NoRepeats(t.out)
          /\ { t.out[k] : k \in 1 .. Len(t.out) } = admitted
          /\ NoRepeats([k \in 1 .. Len(t.out) |-> m_bvh.leaf_nodes[t.out[k]]])
          /\ { m_bvh.leaf_nodes[t.out[k]] : k \in 1 .. Len(t.out) }
               = { m_bvh.leaf_nodes[k] : k \in admitted }
          /\ NoRepeats(t.visited)
          /\ t.todo = << >>

\* C13 witness: a tree over three boxes in which, for one point, the
\* traversal defers a child on the stack, finds two leaves and prunes
\* another child.
C13_Witness ==
  /\ Built
  /\ m_numItems = 3
  /\ \E p \in PointPool :
       LET t == TraverseRoot(m_bvh.inner_nodes, p)
       IN  /\ Len(t.out) = 2
           /\ Len(t.visited) >= 3
           /\ \E i \in DOMAIN m_bvh.inner_nodes :
                /\ PointInLeftBin(p, m_bvh.inner_nodes[i])
                /\ PointInRightBin(p, m_bvh.inner_nodes[i])

\* C14: while the leaf workers combine the boxes bottom-up, in whatever way
\* they interleave, no worker reads the box of a child that has not been
\* written yet.
C14_NoEarlyRead == ~k_earlyRead

\* C14 witness: the combination over three boxes is over; every internal
\* node was reached by two workers and holds the union of the boxes below.
C14_Witness ==
  /\ p_pc = "install"
  /\ m_numItems = 3
  /\ \A i \in DOMAIN k_counters : k_counters[i] = 2
  /\ \A i \in DOMAIN k_counters :
       p_build.radix_tree.inner_aabbs[i] = SubtreeBox(p_build.radix_tree, i)

\* C15 (as claimed): reallocate( num_elems ) on a buffer that holds external
\* data, or with num_elems < 0, returns with the data pointer, the element
\* count and the external flag as they were.
C15_ReallocateNoop ==
  (/\ b_ret.op = "reallocate"
   /\ h_bufferBefore.m_is_data_external \/ b_ret.num_elems < 0)
    => /\ b_ret.outcome = "returned"
       /\ b_buffer = h_bufferBefore

\* C16: after any sequence of createBuffer and destroyBuffer calls, the live
\* buffers have pairwise distinct indices, and getBuffer of a live buffer's
\* index returns that buffer.
C16_BufferIndexUnique ==
  /\ \A a, b \in LiveBuffers : a # b => s_index[a] # s_index[b]
  /\ \A b \in LiveBuffers : GetBufferResult(m_data_buffers, s_index[b]) = b

\* C16 witness: createBuffer has just reused a freed index while another
\* buffer is live.
C16_Witness ==
  /\ s_ret.op = "createBuffer"
  /\ s_ret.reused
  /\ s_ret.obj # NullObj
  /\ Cardinality(LiveBuffers) >= 2

\* The queries whose fill work item has run.
FillDone ==
  IF p_pc = "fill" THEN p_done
  ELSE IF p_pc = "findend" THEN 0 .. p_find.numPts - 1
  ELSE {}

WritesTo(x) == { w \in h_fill.writes : w.slot = x }

\* C18: in the fill pass, in whatever order the queries run, query i writes
\* only inside [offsets[i], offsets[i] + counts[i]), no slot is written
\* twice, no write falls outside the allocated array, and when the pass is
\* over every slot of candidates has been written exactly once.
C18_FillWritesDisjoint ==
  p_pc \in {"fill", "findend"} =>
    /\ \A w \in h_fill.writes :
         /\ p_find.offsets[w.query] <= w.slot
         /\ w.slot < p_find.offsets[w.query] + p_find.counts[w.query]
         /\ w.slot \in DOMAIN p_find.buf.candidates
         /\ p_find.buf.candidates[w.slot] = w.value
    /\ ~p_find.buf.oob
    /\ \A x \in DOMAIN p_find.buf.candidates :
         /\ Cardinality(WritesTo(x)) <= 1
         /\ WritesTo(x) = {} <=> p_find.buf.candidates[x] = Unwritten
         /\ p_pc = "findend" => Cardinality(WritesTo(x)) = 1

\* C18 witness: query 1 has written its two slots or more while query 0,
\* which has candidates too, has not run yet.
C18_Witness ==
  /\ p_pc = "fill"
  /\ p_done = {1}
  /\ p_find.counts[0] >= 1
  /\ p_find.counts[1] >= 2
  /\ Cardinality(h_fill.writes) >= 2

\* What each phase of find() and build() leaves behind when it is complete.
CountPassComplete ==
  /\ DOMAIN p_find.counts = 0 .. p_find.numPts - 1
  /\ \A i \in DOMAIN p_find.counts :
       p_find.counts[i] = CountQuery(m_bvh.inner_nodes, p_find.pts, i)
  /\ p_find.total_count = SumTo(p_find.counts, p_find.numPts)
ScanComplete ==
  p_find.offsets = ExclusiveScan(p_find.counts, p_find.numPts)
CandidatesAllocated ==
  DOMAIN p_find.buf.candidates = 0 .. p_find.total_count - 1
RadixTreeComplete ==
  LET rt == p_build.radix_tree
      whole == BuildRadixTree(p_build.boxesptr, p_build.numBoxes,
                              m_scaleFactor)
  IN  /\ rt.size = p_build.numBoxes
      /\ rt.bounds = whole.bounds
      /\ rt.mcodes = whole.mcodes
      /\ rt.leafs = whole.leafs
      /\ rt.leaf_aabbs = whole.leaf_aabbs
      /\ rt.nodes = whole.nodes
      /\ rt.inner_aabbs = Arr(rt.size - 1, LAMBDA i : SubtreeBox(whole, i))

\* C19: the exclusive scan starts only when the count pass is complete for
\* all queries, the candidates allocation only when the scan is complete,
\* a fill work item only when the allocation has been made, and in build()
\* the emission (allocation of the flattened tree and every emitter work
\* item) only when the radix tree is complete for all nodes.
C19_PhaseBarriers ==
  [][ /\ (p_pc = "scan" /\ p_pc' # "scan") => CountPassComplete
      /\ (p_pc = "alloc" /\ p_pc' # "alloc") =>
           CountPassComplete /\ ScanComplete
      /\ (p_pc = "fill" /\ p_done' # p_done /\ p_done' # {}) =>
           CountPassComplete /\ ScanComplete /\ CandidatesAllocated
      /\ (p_pc \in {"install", "emit"} /\ <<p_pc, p_done>>' # <<p_pc, p_done>>)
           => RadixTreeComplete ]_vars

\* C19 witness: a fill work item has run in a find() of two queries with
\* candidates, on a tree of three boxes or more.
C19_Witness ==
  /\ p_pc = "fill"
  /\ p_done # {}
  /\ p_find.numPts = 2
  /\ p_find.total_count >= 2
  /\ Len0(m_bvh.inner_nodes) >= 2

\* The internal nodes of the radix tree that the node pass has written.
NodesWritten ==
  IF p_pc = "nodes" THEN p_done
  ELSE IF p_pc \in {"combine", "install", "emit", "buildend"}
       THEN 0 .. p_build.numBoxes - 2
  ELSE {}

\* The key range of radix child c over n sorted codes: one key for a leaf,
\* the range of internal node c otherwise.
ChildRange(codes, n, c) ==
  IF c >= n - 1 THEN [first |-> c - (n - 1), last |-> c - (n - 1)]
  ELSE LET nd == RadixNode(codes, n, c)
       IN  [first |-> nd.first, last |-> nd.last]

\* C20: every internal node of the radix tree over the n sorted codes has
\* first < last and first <= split < last; its left child covers exactly
\* [first, split] and its right child exactly [split+1, last], a child
\* being a leaf exactly when its range has one key; the root covers
\* [0, n-1]; and a node is the same in whatever order the nodes are computed.
C20_RadixRanges ==
  \A i \in NodesWritten :
    LET n == p_build.numBoxes
        codes == p_build.radix_tree.mcodes
        nd == p_build.radix_tree.nodes[i]
    IN  /\ 0 <= nd.first /\ nd.first < nd.last /\ nd.last <= n - 1
        /\ nd.first <= nd.split /\ nd.split < nd.last
        /\ nd.first <= i /\ i <= nd.last
        /\ ChildRange(codes, n, nd.left) =
             [first |-> nd.first, last |-> nd.split]
        /\ ChildRange(codes, n, nd.right) =
             [first |-> nd.split + 1, last |-> nd.last]
        /\ nd.left >= n - 1 <=> nd.first = nd.split
        /\ nd.right >= n - 1 <=> nd.split + 1 = nd.last
        /\ i = 0 => nd.first = 0 /\ nd.last = n - 1
        /\ nd = BuildRadixTree(p_build.boxesptr, n, m_scaleFactor).nodes[i]

\* C20 witness: in a tree over three boxes or more, internal node 1 has
\* been computed before the root, and one of its children is a leaf.
C20_Witness ==
  /\ p_pc = "nodes"
  /\ p_build.numBoxes >= 3
  /\ p_done = {1}
  /\ \/ p_build.radix_tree.nodes[1].left >= p_build.numBoxes - 1
     \/ p_build.radix_tree.nodes[1].right >= p_build.numBoxes - 1

\* The boxes build() works on and their Morton codes, by original index.
BuildBoxes == IF m_numItems = 1 THEN PadBoxes(m_boxes) ELSE m_boxes
InputCodes ==
  Arr(NumBoxes, LAMBDA j :
    MortonCode(BoxAt(BuildBoxes, j), ReduceBounds(BuildBoxes, NumBoxes)))

\* C21: boxes with equal Morton codes (all centroids identical included) are
\* sorted by original index, and build() still returns a well-formed tree in
\* which each of them is a leaf of its own, without error.
C21_EqualCodesByIndex ==
  Built =>
    /\ ~aborted
    /\ ret.op = "build" => ret.status = BVH_BUILD_OK
    /\ WellFormedTree(m_bvh, NumBoxes)
    /\ LET codes == InputCodes
       IN  \A a, b \in DOMAIN m_bvh.leaf_nodes :
             a < b =>
               LET ja == m_bvh.leaf_nodes[a]
                   jb == m_bvh.leaf_nodes[b]
               IN  /\ ja # jb
                   /\ codes[ja] <= codes[jb]
                   /\ codes[ja] = codes[jb] => ja < jb

\* C21 witness: a tree over three boxes that are all the same box.
C21_Witness ==
  /\ Built
  /\ ret.op = "build"
  /\ m_numItems = 3
  /\ \A j \in 1 .. 2 : BoxAt(m_boxes, j) = BoxAt(m_boxes, 0)
  /\ LET codes == InputCodes
     IN  \A j \in 1 .. 2 : codes[j] = codes[0]

\* The workers that are about to write the box of internal node i.
Combiners(i) ==
  { l \in DOMAIN k_worker : k_worker[l].pc = "combine" /\ k_worker[l].node = i }

\* No box is written twice; a box is written, or about to be, only when both
\* children have arrived, by one worker; when all workers have stopped every
\* box, the root's included, has been written.
CombinedOnce ==
  /\ \A i \in DOMAIN k_writes :
       /\ k_writes[i] <= 1
       /\ k_counters[i] <= 2
       /\ k_writes[i] + Cardinality(Combiners(i)) <= 1
       /\ (k_writes[i] = 1 \/ Combiners(i) # {}) => k_counters[i] = 2
  /\ (k_worker # EmptyArr /\ \A l \in DOMAIN k_worker : k_worker[l].pc = "done")
       => \A i \in DOMAIN k_writes : k_writes[i] = 1

\* C22: in the bottom-up combination, however the workers interleave, each
\* internal node's box is written exactly once, by the second of its two
\* children to arrive, the first having stopped; and the pass ends, with the
\* root's box written.
C22_FinalizedOnce ==
  /\ []CombinedOnce
  /\ (p_pc = "combine") ~> (p_pc = "install" /\ k_writes[0] = 1)

\* C22 witness: over three boxes the root has been written after the other
\* internal node, each once, and all three workers have stopped.
C22_Witness ==
  /\ p_pc = "install"
  /\ m_numItems = 3
  /\ \A i \in DOMAIN k_writes : k_writes[i] = 1 /\ k_counters[i] = 2
  /\ \A l \in DOMAIN k_worker : k_worker[l].pc = "done"

\* The boxes of the leaves below child reference c of the built tree, each
\* the box build() was given (the fake box of a single-item build included)
\* expanded by the scale factor of that build.
LeafBoxesBelow(c) ==
  { ScaleBox(BoxAt(BuildBoxes, m_bvh.leaf_nodes[k]), h_builtScale) :
      k \in { k \in DOMAIN m_bvh.leaf_nodes :
                -(k + 1) \in Descendants(m_bvh, c, NumBoxes) } }

\* The union of a non-empty set of boxes, axis by axis.
UnionOfBoxes(S) ==
  MkBox([d \in Dims |-> SetMin({ b.lo[d] : b \in S })],
        [d \in Dims |-> SetMax({ b.hi[d] : b \in S })])

\* C23: after emission, the left (right) child box stored in each internal
\* node is the union of the scale-factor-expanded boxes of all leaves of
\* its left (right) subtree.
C23_ChildBoxIsUnion ==
  Built =>
    \A i \in DOMAIN m_bvh.inner_nodes :
      LET nd == m_bvh.inner_nodes[i]
      IN  /\ LeafBoxesBelow(nd.left_child) # {}
          /\ LeafBoxesBelow(nd.right_child) # {}
          /\ nd.left_box = UnionOfBoxes(LeafBoxesBelow(nd.left_child))
          /\ nd.right_box = UnionOfBoxes(LeafBoxesBelow(nd.right_child))

\* C23 witness: a tree over three different boxes built with a scale factor
\* the caller set; one child of the root is an internal node over two leaves.
C23_Witness ==
  /\ Built
  /\ m_numItems = 3
  /\ h_builtScale = 2 * ScaleDen
  /\ Cardinality({ BoxAt(m_boxes, j) : j \in Items }) = 3
  /\ \E side \in {"left", "right"} :
       /\ ChildRef(m_bvh, <<0, side>>) > 0
       /\ Cardinality(LeafBoxesBelow(ChildRef(m_bvh, <<0, side>>))) = 2

\* C24: when build() or find() has returned to its single-threaded caller,
\* the process-wide default allocator is the one that was the default when
\* the call was entered; while the call runs it is the execution space's.
C24_AllocatorRestored ==
  /\ (p_pc \in {"built", "done"} /\ ret.op \in {"build", "find"})
       => defaultAllocatorID = h_entryAllocatorID
  /\ p_pc \notin {"idle", "built", "done"}
       => defaultAllocatorID = ExecAllocatorID

\* C24 witness: find() has returned and the default allocator is the host
\* allocator again, which the caller had made the default before the call
\* and after a build() entered with the execution space's allocator.
C24_Witness ==
  /\ p_pc = "done"
  /\ ret.op = "find"
  /\ h_entryAllocatorID = HostAllocatorID
  /\ defaultAllocatorID = HostAllocatorID
  /\ ret.numPts >= 1

PointOnOrInBox(p, j) ==
  \A d \in Dims : BoxAt(m_boxes, j).lo[d] <= p[d] /\ p[d] <= BoxAt(m_boxes, j).hi[d]

\* C26 (as claimed): after a build() with an expanding scale factor, find()
\* reports box j for every query point on the boundary of input box j, a
\* zero-volume box that the point coincides with included.
C26_BoundaryFound ==
  (ret.op = "find" /\ h_builtScale > ScaleDen) =>
    \A i \in Queries(ret) : \A j \in Items :
      PointOnOrInBox(ret.pts[i], j) => j \in CandidateSet(ret, i)

\* C27 (as claimed): whenever every concurrently started call has completed,
\* the default allocator is the one from before the first call, and the
\* candidates array of every call came from the execution space's allocator.
C27_ConcAllocatorRestored ==
  /\ (\A t \in FindThreads : c_pc[t] \in {"idle", "done"})
       => defaultAllocatorID = HostAllocatorID
  /\ \A t \in FindThreads :
       c_pc[t] \in {"allocated", "filled", "done"}
         => c_find[t].candidatesAllocatorID = ExecAllocatorID

\* The indices on the free-index stack.
FreeIndices == { m_free_buffer_ids[k] : k \in DOMAIN m_free_buffer_ids }

\* C28 (as claimed): an index is on the free-index stack exactly when its
\* slot of the buffer table is null, the stack holds no index twice, and a
\* createBuffer that grew the table found no freed index to take.
C28_FreeStackExact ==
  /\ \A idx \in DOMAIN m_data_buffers :
       idx \in FreeIndices <=> m_data_buffers[idx] = NullObj
  /\ FreeIndices \subseteq DOMAIN m_data_buffers
  /\ Cardinality(FreeIndices) = Len(m_free_buffer_ids)
  /\ (s_ret.op = "createBuffer" /\ ~s_ret.reused) => m_free_buffer_ids = << >>

\* The valid elements of a mesh that have vertex v.
ElementsHolding(mesh, v) ==
  { z \in DOMAIN mesh.element_set :
      mesh.element_set[z] /\ is_subset(v, mesh.ev_rel[z]) }

\* The vertex->element entry of v is a valid element that has v when there
\* is one, and invalid when there is none.
VertexEntryOk(mesh, v) ==
  IF ElementsHolding(mesh, v) = {} THEN mesh.ve_rel[v] = INVALID_INDEX
  ELSE mesh.ve_rel[v] \in ElementsHolding(mesh, v)

\* C29 (as claimed): after removeElement( e ) of a valid element on a mesh
\* that isValid() accepts and whose vertex->element entries were right, e is
\* invalid, no valid element has e among its neighbours, and the
\* vertex->element entry of every vertex of e is a valid element that has
\* the vertex whenever there is one.
C29_RemoveElementKeepsRelations ==
  (/\ ia_ret.op = "removeElement"
   /\ IsValidEntry(ia_ret.before.element_set, ia_ret.idx)
   /\ IsValidMesh(ia_ret.before)
   /\ \A v \in DOMAIN ia_ret.before.vertex_set :
        ia_ret.before.vertex_set[v] => VertexEntryOk(ia_ret.before, v))
  => /\ ~IsValidEntry(ia_mesh.element_set, ia_ret.idx)
     /\ \A z \in DOMAIN ia_mesh.element_set :
          ia_mesh.element_set[z] => ~is_subset(ia_ret.idx, ia_mesh.ee_rel[z])
     /\ \A i \in DOMAIN ia_ret.before.ev_rel[ia_ret.idx] :
          VertexEntryOk(ia_mesh, ia_ret.before.ev_rel[ia_ret.idx][i])

\* C30: for positive extents in 1, 2 or 3 dimensions and every flat index i
\* below size(), every component of IndexToLogicalIndex(i) lies within its
\* extent, and LogicalIndexToIndex gives i back.
C30_IndexRoundTrip ==
  /\ q_logical # EmptyArr =>
       /\ DOMAIN q_logical = DOMAIN m_dimensions
       /\ \A d \in DOMAIN m_dimensions :
            0 <= q_logical[d] /\ q_logical[d] < m_dimensions[d]
  /\ q_back # 0 - 1 => q_back = q_index

\* C30 witness: the last point of a 2 x 3 x 2 mesh has been converted there
\* and back.
C30_Witness ==
  /\ m_dimensions = (0 :> 2) @@ (1 :> 3) @@ (2 :> 2)
  /\ q_index = 11
  /\ q_logical = (0 :> 1) @@ (1 :> 2) @@ (2 :> 1)
  /\ q_back = 11

====
